---- MODULE Spec2Model ----
\* ArchGuard: the check run of packages/cli (runChecks), the rule engine of
\* packages/core and the four rules of packages/rules-react.
\*
\* Strings are sequences of one-character strings, so that includes, startsWith,
\* endsWith, replace and the default sort of Array.prototype.sort are computed
\* character by character, as the JavaScript runtime computes them.
EXTENDS Integers, Sequences, FiniteSets, TLC

VARIABLES
    pc,             \* control point of the check command / of a harness
    fs,             \* the file system: the regular files, in directory order
    configDoc,      \* architecture.yaml as parsed by the yaml package, or Missing
    architecture,   \* runChecks: const architecture
    rules,          \* RuleEngine.rules
    sourceFiles,    \* runChecks: const sourceFiles
    importGraph,    \* runChecks: const importGraph
    fileIdx,        \* runChecks: number of files the for loop has processed
    allViolations,  \* runChecks: const allViolations
    context,        \* the RuleContext of the last executeRules call
    result,         \* the RuleResult of the last executeRules / execute call
    executed,       \* trace of Rule.execute calls: <<rule name, file path,
                    \* number of detectCycles calls the call made>>
    exitCode,       \* process exit status
    run,            \* number of the check run (process) in progress
    prevViolations, \* the violation list of the previous run
    probe           \* input of a harness that calls one function; in the check
                    \* command, the error messages printed with console.error

vars == <<pc, fs, configDoc, architecture, rules, sourceFiles, importGraph, fileIdx,
          allViolations, context, result, executed, exitCode, run, prevViolations, probe>>

\* JavaScript null / undefined where a string is expected: no string of the model
\* equals it, since every element of a string is a single character.
Null == <<"null">>

-----------------------------------------------------------------------------
\* Strings

\* String.prototype.startsWith
StartsWith(s, prefix) ==
    /\ Len(prefix) <= Len(s)
    /\ SubSeq(s, 1, Len(prefix)) = prefix

\* String.prototype.endsWith
EndsWith(s, suffix) ==
    /\ Len(suffix) <= Len(s)
    /\ SubSeq(s, Len(s) - Len(suffix) + 1, Len(s)) = suffix

\* String.prototype.includes
Includes(s, sub) ==
    \E i \in 0..(Len(s) - Len(sub)) : SubSeq(s, i + 1, i + Len(sub)) = sub

\* filePath.replace(/\\/g, "/")
ReplaceBackslashes(s) ==
    [i \in 1..Len(s) |-> IF s[i] = "\\" THEN "/" ELSE s[i]]

\* UTF-16 code units of the characters the model uses.
CharCode(c) ==
    CASE c = "$" -> 36
      [] c = "'" -> 39
      [] c = "(" -> 40
      [] c = ")" -> 41
      [] c = "-" -> 45
      [] c = "." -> 46
      [] c = "/" -> 47
      [] c = "A" -> 65
      [] c = "B" -> 66
      [] c = "C" -> 67
      [] c = "U" -> 85
      [] c = "\\" -> 92
      [] c = "_" -> 95
      [] c = "a" -> 97
      [] c = "b" -> 98
      [] c = "c" -> 99
      [] c = "d" -> 100
      [] c = "e" -> 101
      [] c = "f" -> 102
      [] c = "i" -> 105
      [] c = "j" -> 106
      [] c = "l" -> 108
      [] c = "m" -> 109
      [] c = "n" -> 110
      [] c = "o" -> 111
      [] c = "p" -> 112
      [] c = "r" -> 114
      [] c = "s" -> 115
      [] c = "t" -> 116
      [] c = "u" -> 117
      [] c = "x" -> 120
      [] OTHER -> 127

\* The comparison Array.prototype.sort uses without a comparator: by code units,
\* a proper prefix before the longer string.
RECURSIVE StringLess(_, _)
StringLess(a, b) ==
    IF b = <<>> THEN FALSE
    ELSE IF a = <<>> THEN TRUE
    ELSE IF CharCode(Head(a)) # CharCode(Head(b))
         THEN CharCode(Head(a)) < CharCode(Head(b))
    ELSE StringLess(Tail(a), Tail(b))

\* [...strs].sort()[0] for a non-empty array of strings
SortedFirst(strs) ==
    strs[CHOOSE i \in 1..Len(strs) :
             \A j \in 1..Len(strs) : strs[j] = strs[i] \/ StringLess(strs[i], strs[j])]

\* Concatenation of a sequence of sequences.
RECURSIVE Flatten(_)
Flatten(ss) ==
    IF ss = <<>> THEN <<>> ELSE Head(ss) \o Flatten(Tail(ss))

\* The elements of a sequence.
Range(s) == {s[i] : i \in 1..Len(s)}

-----------------------------------------------------------------------------
\* Paths (node's posix path module)

\* str.split("/")
RECURSIVE SplitSlash(_)
SplitSlash(s) ==
    IF \A i \in 1..Len(s) : s[i] # "/" THEN <<s>>
    ELSE LET k == CHOOSE i \in 1..Len(s) :
                      s[i] = "/" /\ \A j \in 1..(i - 1) : s[j] # "/"
         IN <<SubSeq(s, 1, k - 1)>> \o SplitSlash(SubSeq(s, k + 1, Len(s)))

\* "/" + segments.join("/")
RECURSIVE JoinAbsolute(_)
JoinAbsolute(segs) ==
    IF segs = <<>> THEN <<>>
    ELSE <<"/">> \o Head(segs) \o JoinAbsolute(Tail(segs))

\* normalizeString of path.resolve: "" and "." are dropped, ".." removes the
\* segment before it (and is dropped at the root).
RECURSIVE NormalizeSegments(_, _)
NormalizeSegments(todo, done) ==
    IF todo = <<>> THEN done
    ELSE LET seg == Head(todo) IN
         IF seg = <<>> \/ seg = <<".">> THEN NormalizeSegments(Tail(todo), done)
         ELSE IF seg = <<".", ".">>
              THEN NormalizeSegments(Tail(todo),
                       IF done = <<>> THEN <<>> ELSE SubSeq(done, 1, Len(done) - 1))
         ELSE NormalizeSegments(Tail(todo), Append(done, seg))

\* path.resolve(dir, p) for an absolute dir
PathResolve(dir, p) ==
    LET joined == IF StartsWith(p, <<"/">>) THEN p ELSE dir \o <<"/">> \o p
        segs == NormalizeSegments(SplitSlash(joined), <<>>)
    IN IF segs = <<>> THEN <<"/">> ELSE JoinAbsolute(segs)

\* path.dirname(p) for an absolute, normalized p
PathDirname(p) ==
    LET segs == NormalizeSegments(SplitSlash(p), <<>>)
    IN IF Len(segs) <= 1 THEN <<"/">>
       ELSE JoinAbsolute(SubSeq(segs, 1, Len(segs) - 1))

\* path.join(dir, name) for an absolute dir and a plain entry name
PathJoin(dir, name) ==
    IF dir = <<"/">> THEN <<"/">> \o name ELSE dir \o <<"/">> \o name

-----------------------------------------------------------------------------
\* Layers. Record<string, LayerConfig> is a sequence of [name, allowedImports]
\* entries with distinct names, in the object's key order.

\* Object.keys(layers)
LayerNames(layers) == [i \in 1..Len(layers) |-> layers[i].name]

\* layers[layerName]
HasLayer(layers, layerName) ==
    \E i \in 1..Len(layers) : layers[i].name = layerName

LayerConfigOf(layers, layerName) ==
    layers[CHOOSE i \in 1..Len(layers) : layers[i].name = layerName]

\* DetectLayerLoop with the separators of the test left out: any occurrence of the
\* layer name matches.
RECURSIVE DetectLayerLoopAnywhere(_, _, _)
DetectLayerLoopAnywhere(normalizedPath, layerNames, i) ==
    IF i > Len(layerNames) THEN Null
    ELSE IF Includes(normalizedPath, layerNames[i]) THEN layerNames[i]
    ELSE DetectLayerLoopAnywhere(normalizedPath, layerNames, i + 1)

\* The for loop of detectLayerFromPath over layerNames, from index i on.
RECURSIVE DetectLayerLoop(_, _, _)
DetectLayerLoop(normalizedPath, layerNames, i) ==
    IF i > Len(layerNames) THEN Null
    ELSE IF \/ Includes(normalizedPath, <<"/">> \o layerNames[i] \o <<"/">>)
            \/ Includes(normalizedPath, <<"\\">> \o layerNames[i] \o <<"\\">>)
         THEN layerNames[i]
    ELSE DetectLayerLoop(normalizedPath, layerNames, i + 1)

detectLayerFromPath(filePath, layers) ==
    DetectLayerLoop(ReplaceBackslashes(filePath), LayerNames(layers), 1)

detectLayerFromImportPath(importPath, fromFile, layers) ==
    detectLayerFromPath(PathResolve(PathDirname(fromFile), importPath), layers)

isRelativeImport(importPath) ==
    StartsWith(importPath, <<".">>) \/ StartsWith(importPath, <<"/">>)

-----------------------------------------------------------------------------
\* Source text and the TypeScript parser (ts.createSourceFile).
\* A source text is its sequence of tokens, line breaks included; a position is a
\* 0-based offset into it. A token is [t, v]: t the token class (a keyword or
\* punctuator, "id", "str" or "\n"), v the characters of an identifier or of a
\* string literal.

Kw(t) == [t |-> t, v |-> <<>>]
Id(v) == [t |-> "id", v |-> v]
Str(v) == [t |-> "str", v |-> v]
NL == [t |-> "\n", v |-> <<>>]

\* A syntax tree node: kind (the ts.SyntaxKind name), text (the name of a function
\* or identifier, the text of a string literal, the operator token of a binary
\* expression, else Null), pos (getStart()) and children (in ts.forEachChild
\* order).
Node(kind, text, pos, children) ==
    [kind |-> kind, text |-> text, pos |-> pos, children |-> children]

\* The scanner skips line breaks between tokens.
RECURSIVE SkipTrivia(_, _)
SkipTrivia(toks, i) ==
    IF i <= Len(toks) /\ toks[i].t = "\n" THEN SkipTrivia(toks, i + 1) ELSE i

\* The class of the token at i ("eof" past the end).
TokAt(toks, i) == IF i <= Len(toks) THEN toks[i].t ELSE "eof"

BinaryOperators == {"<", ">", "===", "&&", "||", "+", "="}

\* The productions of the parser call each other through Parse: rule names the
\* production, i the position it starts at, x its other argument if any.
RECURSIVE Parse(_, _, _, _)

\* Statements up to the closing token (or the end of the text).
ParseStatements(toks, i0, closing) ==
    LET i == SkipTrivia(toks, i0) IN
    IF i > Len(toks) \/ toks[i].t = closing THEN [nodes |-> <<>>, next |-> i]
    ELSE LET st == Parse("Statement", toks, i, Null)
             rest == Parse("Statements", toks, st.next, closing)
         IN [nodes |-> <<st.node>> \o rest.nodes, next |-> rest.next]

\* { statements }
ParseBlock(toks, i0) ==
    LET i == SkipTrivia(toks, i0)
        body == Parse("Statements", toks, i + 1, "}")
    IN [node |-> Node("Block", Null, i - 1, body.nodes), next |-> body.next + 1]

\* function name? ( ) { ... } starting at the function keyword
ParseFunction(toks, i, kind) ==
    LET named == TokAt(toks, i + 1) = "id"
        j == IF named THEN i + 2 ELSE i + 1
        body == Parse("Block", toks, j + 2, Null)
    IN [node |-> Node(kind, IF named THEN toks[i + 1].v ELSE Null, i - 1,
                      (IF named THEN <<Node("Identifier", toks[i + 1].v, i, <<>>)>>
                       ELSE <<>>) \o <<body.node>>),
        next |-> body.next]

\* Property accesses and calls after a primary expression.
ParsePostfix(toks, left, i0) ==
    LET i == SkipTrivia(toks, i0) IN
    IF TokAt(toks, i) = "." /\ TokAt(toks, i + 1) = "id"
    THEN Parse("Postfix", toks, i + 2,
             Node("PropertyAccessExpression", Null, left.pos,
                  <<left, Node("Identifier", toks[i + 1].v, i, <<>>)>>))
    ELSE IF TokAt(toks, i) = "("
    THEN IF TokAt(toks, SkipTrivia(toks, i + 1)) = ")"
         THEN Parse("Postfix", toks, SkipTrivia(toks, i + 1) + 1,
                    Node("CallExpression", Null, left.pos, <<left>>))
         ELSE LET arg == Parse("Expression", toks, i + 1, Null)
              IN Parse("Postfix", toks, SkipTrivia(toks, arg.next) + 1,
                       Node("CallExpression", Null, left.pos, <<left, arg.node>>))
    ELSE [node |-> left, next |-> i]

ParseUnary(toks, i0) ==
    LET i == SkipTrivia(toks, i0)
        t == TokAt(toks, i)
    IN CASE t = "!" ->
              LET e == Parse("Unary", toks, i + 1, Null)
              IN [node |-> Node("PrefixUnaryExpression", Null, i - 1, <<e.node>>),
                  next |-> e.next]
         [] t = "function" -> Parse("Function", toks, i, "FunctionExpression")
         [] t = "(" /\ TokAt(toks, i + 1) = ")" /\ TokAt(toks, i + 2) = "=>" ->
              LET body == Parse("Block", toks, i + 3, Null)
              IN [node |-> Node("ArrowFunction", Null, i - 1, <<body.node>>),
                  next |-> body.next]
         [] t = "(" ->
              LET e == Parse("Expression", toks, i + 1, Null)
              IN Parse("Postfix", toks, SkipTrivia(toks, e.next) + 1,
                       Node("ParenthesizedExpression", Null, i - 1, <<e.node>>))
         [] t = "str" ->
              [node |-> Node("StringLiteral", toks[i].v, i - 1, <<>>), next |-> i + 1]
         [] t = "id" ->
              Parse("Postfix", toks, i + 1, Node("Identifier", toks[i].v, i - 1, <<>>))
         [] OTHER ->
              [node |-> Node("Unknown", Null, i - 1, <<>>), next |-> i + 1]

ParseExpression(toks, i0) ==
    LET left == Parse("Unary", toks, i0, Null)
        i == SkipTrivia(toks, left.next)
    IN IF TokAt(toks, i) \in BinaryOperators
       THEN LET right == Parse("Expression", toks, i + 1, Null)
            IN [node |-> Node("BinaryExpression", <<toks[i].t>>, left.node.pos,
                              <<left.node, right.node>>),
                next |-> right.next]
       ELSE [node |-> left.node, next |-> left.next]

ParseStatement(toks, i) ==
    LET t == TokAt(toks, i) IN
    CASE t = "import" ->
           LET j == IF TokAt(toks, i + 1) = "id" THEN i + 3 ELSE i + 1
               clause == IF TokAt(toks, i + 1) = "id"
                         THEN <<Node("ImportClause", toks[i + 1].v, i, <<>>)>>
                         ELSE <<>>
           IN [node |-> Node("ImportDeclaration", Null, i - 1,
                             clause \o <<Node("StringLiteral", toks[j].v, j - 1, <<>>)>>),
               next |-> j + 1]
      [] t = "function" -> Parse("Function", toks, i, "FunctionDeclaration")
      [] t = "const" ->
           LET init == Parse("Expression", toks, i + 3, Null)
           IN [node |-> Node("VariableStatement", Null, i - 1,
                   <<Node("VariableDeclaration", toks[i + 1].v, i,
                          <<Node("Identifier", toks[i + 1].v, i, <<>>), init.node>>)>>),
               next |-> init.next]
      [] t = "for" /\ TokAt(toks, i + 2) = ";" ->
           LET body == Parse("Block", toks, i + 5, Null)
           IN [node |-> Node("ForStatement", Null, i - 1, <<body.node>>),
               next |-> body.next]
      [] t = "for" ->
           LET body == Parse("Block", toks, i + 6, Null)
           IN [node |-> Node(IF TokAt(toks, i + 3) = "in" THEN "ForInStatement"
                             ELSE "ForOfStatement", Null, i - 1,
                             <<Node("Identifier", toks[i + 2].v, i + 1, <<>>),
                               Node("Identifier", toks[i + 4].v, i + 3, <<>>),
                               body.node>>),
               next |-> body.next]
      [] t = "if" ->
           LET test == Parse("Expression", toks, i + 2, Null)
               body == Parse("Block", toks, SkipTrivia(toks, test.next) + 1, Null)
           IN [node |-> Node("IfStatement", Null, i - 1, <<test.node, body.node>>),
               next |-> body.next]
      [] t = "return" ->
           LET e == Parse("Expression", toks, i + 1, Null)
           IN [node |-> Node("ReturnStatement", Null, i - 1, <<e.node>>),
               next |-> e.next]
      [] OTHER ->
           LET e == Parse("Expression", toks, i, Null)
           IN [node |-> Node("ExpressionStatement", Null, e.node.pos, <<e.node>>),
               next |-> e.next]

\* The production named rule, at position i.
Parse(rule, toks, i, x) ==
    CASE rule = "Statements" -> ParseStatements(toks, i, x)
      [] rule = "Statement" -> ParseStatement(toks, i)
      [] rule = "Block" -> ParseBlock(toks, i)
      [] rule = "Function" -> ParseFunction(toks, i, x)
      [] rule = "Postfix" -> ParsePostfix(toks, x, i)
      [] rule = "Unary" -> ParseUnary(toks, i)
      [] rule = "Expression" -> ParseExpression(toks, i)

\* parseTypeScript(sourceCode, fileName): the ts.SourceFile, with its text.
parseTypeScript(sourceCode, fileName) ==
    [fileName |-> fileName,
     text |-> sourceCode,
     root |-> Node("SourceFile", Null, 0, Parse("Statements", sourceCode, 1, "eof").nodes)]

\* sourceFile.getLineAndCharacterOfPosition(position), both 0-based
getLineAndCharacterOfPosition(sourceFile, position) ==
    LET breaks == {k \in 1..Len(sourceFile.text) :
                       k <= position /\ sourceFile.text[k].t = "\n"}
        lineStart == IF breaks = {} THEN 0
                     ELSE CHOOSE k \in breaks : \A m \in breaks : m <= k
    IN [line |-> Cardinality(breaks), character |-> position - lineStart]

\* All nodes of a subtree in the order a visit with ts.forEachChild reaches them.
RECURSIVE Preorder(_)
RECURSIVE PreorderAll(_)
Preorder(node) == <<node>> \o PreorderAll(node.children)
PreorderAll(nodes) ==
    IF nodes = <<>> THEN <<>> ELSE Preorder(Head(nodes)) \o PreorderAll(Tail(nodes))

\* extractImports(sourceFile)
extractImports(sourceFile) ==
    LET decls == SelectSeq(Preorder(sourceFile.root),
                           LAMBDA n : n.kind = "ImportDeclaration")
    IN [k \in 1..Len(decls) |->
           LET d == decls[k]
               moduleSpecifier == d.children[Len(d.children)]
           IN [from |-> moduleSpecifier.text,
               specifiers |-> IF Len(d.children) = 2 THEN <<d.children[1].text>>
                              ELSE <<>>,
               isTypeOnly |-> FALSE]]

-----------------------------------------------------------------------------
\* Rules of packages/rules-react. A Violation is [file, line, column, message,
\* rule]; its message is [text, args]: the fixed wording and the strings the
\* template interpolates.

\* Array.prototype.join
RECURSIVE Join(_, _)
Join(strs, sep) ==
    IF strs = <<>> THEN <<>>
    ELSE IF Len(strs) = 1 THEN strs[1]
    ELSE strs[1] \o sep \o Join(Tail(strs), sep)

Violation(file, lc, text, args, rule) ==
    [file |-> file, line |-> lc.line + 1, column |-> lc.character + 1,
     message |-> [text |-> text, args |-> args], rule |-> rule]

\* return { violations: [], passed: true }
EmptyPass == [violations |-> <<>>, passed |-> TRUE]

\* RuleResult that reports success whatever the violations.
RuleResultAlwaysPassed(violations) ==
    [violations |-> violations, passed |-> TRUE]

\* return { violations, passed: violations.length === 0 }
RuleResult(violations) ==
    [violations |-> violations, passed |-> Len(violations) = 0]

\* findImportNode(sourceFile, importPath): a position, or -1 for null. The visit
\* assigns found at every matching declaration, so the last one stays.
findImportNode(sourceFile, importPath) ==
    LET matching == SelectSeq(Preorder(sourceFile.root),
            LAMBDA n : /\ n.kind = "ImportDeclaration"
                       /\ n.children[Len(n.children)].kind = "StringLiteral"
                       /\ n.children[Len(n.children)].text = importPath)
    IN IF matching = <<>> THEN -1 ELSE matching[Len(matching)].pos

\* BoundaryViolationsOfImport without the test of allowedLayers.has(importedLayer).
BoundaryViolationsOfImportNoAllowList(ctx, layerName, layerConfig, imp) ==
    IF ~isRelativeImport(imp.from) THEN <<>>
    ELSE LET importedLayer ==
                 detectLayerFromImportPath(imp.from, ctx.filePath, ctx.architecture.layers)
         IN IF importedLayer = Null \/ importedLayer = <<>> \/ importedLayer = layerName
            THEN <<>>
            ELSE LET sourceFile == parseTypeScript(ctx.sourceCode, ctx.filePath)
                     importNode == findImportNode(sourceFile, imp.from)
                 IN IF importNode = -1 THEN <<>>
                    ELSE <<Violation(ctx.filePath,
                              getLineAndCharacterOfPosition(sourceFile, importNode),
                              "Layer cannot import from",
                              <<layerName, importedLayer,
                                IF Len(layerConfig.allowedImports) > 0
                                THEN Join(layerConfig.allowedImports, <<",", " ">>)
                                ELSE <<"n", "o", "n", "e">> >>,
                              "layer-import-boundary")>>

\* The body of the for loop over context.imports of layer-import-boundary: the
\* violations one import pushes.
BoundaryViolationsOfImport(ctx, layerName, layerConfig, imp) ==
    IF ~isRelativeImport(imp.from) THEN <<>>
    ELSE LET importedLayer ==
                 detectLayerFromImportPath(imp.from, ctx.filePath, ctx.architecture.layers)
         IN IF importedLayer = Null \/ importedLayer = <<>> \/ importedLayer = layerName
            THEN <<>>
            ELSE IF importedLayer \in Range(layerConfig.allowedImports) THEN <<>>
            ELSE LET sourceFile == parseTypeScript(ctx.sourceCode, ctx.filePath)
                     importNode == findImportNode(sourceFile, imp.from)
                 IN IF importNode = -1 THEN <<>>
                    ELSE <<Violation(ctx.filePath,
                              getLineAndCharacterOfPosition(sourceFile, importNode),
                              "Layer cannot import from",
                              <<layerName, importedLayer,
                                IF Len(layerConfig.allowedImports) > 0
                                THEN Join(layerConfig.allowedImports, <<",", " ">>)
                                ELSE <<"n", "o", "n", "e">> >>,
                              "layer-import-boundary")>>

\* createLayerImportBoundaryRule().execute
LayerImportBoundaryExecute(ctx) ==
    IF ~ctx.architecture.rules.enforceFeatureBoundaries THEN EmptyPass
    ELSE LET layerName == detectLayerFromPath(ctx.filePath, ctx.architecture.layers) IN
         IF layerName = Null \/ layerName = <<>> THEN EmptyPass
         ELSE IF ~HasLayer(ctx.architecture.layers, layerName) THEN EmptyPass
         ELSE LET layerConfig == LayerConfigOf(ctx.architecture.layers, layerName)
              IN RuleResult(Flatten(
                     [k \in 1..Len(ctx.imports) |->
                         BoundaryViolationsOfImport(ctx, layerName, layerConfig,
                                                    ctx.imports[k])]))

\* String.prototype.toUpperCase on one character
ToUpperCase(c) ==
    CASE c = "a" -> "A" [] c = "b" -> "B" [] c = "c" -> "C" [] c = "d" -> "D"
      [] c = "e" -> "E" [] c = "f" -> "F" [] c = "g" -> "G" [] c = "h" -> "H"
      [] c = "i" -> "I" [] c = "j" -> "J" [] c = "k" -> "K" [] c = "l" -> "L"
      [] c = "m" -> "M" [] c = "n" -> "N" [] c = "o" -> "O" [] c = "p" -> "P"
      [] c = "q" -> "Q" [] c = "r" -> "R" [] c = "s" -> "S" [] c = "t" -> "T"
      [] c = "u" -> "U" [] c = "v" -> "V" [] c = "w" -> "W" [] c = "x" -> "X"
      [] c = "y" -> "Y" [] c = "z" -> "Z"
      [] OTHER -> c

FunctionKinds == {"FunctionDeclaration", "FunctionExpression", "ArrowFunction"}

isComponentFunction(node) ==
    IF node.kind \notin FunctionKinds THEN FALSE
    ELSE LET name == IF node.kind = "FunctionDeclaration" /\ node.text # Null
                     THEN node.text ELSE Null
         IN /\ name # Null
            /\ name # <<>>
            /\ \/ name[1] = ToUpperCase(name[1])
               \/ StartsWith(name, <<"u", "s", "e">>)

isReactComponentFile(sourceFile) ==
    LET nodes == Preorder(sourceFile.root)
        hasReactImport == \E k \in 1..Len(nodes) :
            /\ nodes[k].kind = "ImportDeclaration"
            /\ nodes[k].children[Len(nodes[k].children)].kind = "StringLiteral"
            /\ nodes[k].children[Len(nodes[k].children)].text = <<"r", "e", "a", "c", "t">>
        hasComponent == \E k \in 1..Len(nodes) :
            nodes[k].kind \in FunctionKinds /\ isComponentFunction(nodes[k])
    IN hasReactImport /\ hasComponent

\* isSimpleConditional accepting a binary expression only when its operator
\* compares or combines conditions.
isSimpleConditionalComparisonOnly(node) ==
    LET expression == node.children[1]
    IN \/ expression.kind \in {"Identifier", "PropertyAccessExpression"}
       \/ /\ expression.kind = "BinaryExpression"
          /\ expression.text \in {<<"===">>, <<"<">>, <<">">>, <<"&&">>, <<"||">>}

isSimpleConditional(node) ==
    LET expression == node.children[1]
    IN expression.kind \in {"Identifier", "PropertyAccessExpression", "BinaryExpression"}

\* What checkForBusinessLogic's visit pushes at one node.
BusinessLogicAtNode(n, sourceFile, filePath) ==
    (IF n.kind \in {"ForStatement", "ForInStatement", "ForOfStatement"}
     THEN <<Violation(filePath, getLineAndCharacterOfPosition(sourceFile, n.pos),
                      "Loop detected in UI component", <<>>,
                      "no-business-logic-in-components")>>
     ELSE <<>>)
    \o
    (IF n.kind = "IfStatement" /\ ~isSimpleConditional(n)
     THEN <<Violation(filePath, getLineAndCharacterOfPosition(sourceFile, n.pos),
                      "Complex conditional in UI component", <<>>,
                      "no-business-logic-in-components")>>
     ELSE <<>>)

\* checkForBusinessLogic(node, sourceFile, violations, filePath): the violations
\* it pushes, over the whole subtree of node.
checkForBusinessLogic(node, sourceFile, filePath) ==
    LET sub == Preorder(node)
    IN Flatten([k \in 1..Len(sub) |-> BusinessLogicAtNode(sub[k], sourceFile, filePath)])

\* createBusinessLogicInComponentsRule().execute
BusinessLogicExecute(ctx) ==
    IF ~ctx.architecture.rules.noBusinessLogicInComponents THEN EmptyPass
    ELSE LET sourceFile == parseTypeScript(ctx.sourceCode, ctx.filePath) IN
         IF ~isReactComponentFile(sourceFile) THEN EmptyPass
         ELSE LET nodes == Preorder(sourceFile.root)
              IN RuleResult(Flatten(
                     [k \in 1..Len(nodes) |->
                         IF isComponentFunction(nodes[k])
                         THEN checkForBusinessLogic(nodes[k], sourceFile, ctx.filePath)
                         ELSE <<>>]))

\* The forbiddenPatterns of no-data-fetching-in-ui, matched on tokens: white space
\* is the line break token, and a word matches where a token's characters hold it.
sFetch == <<"f", "e", "t", "c", "h">>
sAxios == <<"a", "x", "i", "o", "s">>
sUseEffect == <<"u", "s", "e", "E", "f", "f", "e", "c", "t">>
HttpMethods == << <<"g", "e", "t">>, <<"p", "o", "s", "t">>, <<"p", "u", "t">>,
                  <<"d", "e", "l", "e", "t", "e">> >>

\* Whether the token holds the word (as an identifier, or inside a string literal).
HoldsWord(tok, word) == tok.t \in {"id", "str"} /\ Includes(tok.v, word)

\* Whether the token is an identifier that ends with the word.
EndsWord(tok, word) == tok.t = "id" /\ EndsWith(tok.v, word)

\* /useEffect\s*\([^)]*=>\s*\{[^}]*word/ at token i: the number of tokens of the
\* match, 0 when there is none. Both stars are greedy.
EffectMatchLen(toks, i, word) ==
    IF ~(EndsWord(toks[i], sUseEffect) /\ TokAt(toks, SkipTrivia(toks, i + 1)) = "(")
    THEN 0
    ELSE LET open == SkipTrivia(toks, i + 1)
             Words(brace) == {c \in (brace + 1)..Len(toks) :
                                 /\ HoldsWord(toks[c], word)
                                 /\ \A m \in (brace + 1)..(c - 1) : toks[m].t # "}"}
             Arrows == {a \in (open + 1)..Len(toks) :
                           /\ toks[a].t = "=>"
                           /\ \A m \in (open + 1)..(a - 1) : toks[m].t # ")"
                           /\ TokAt(toks, SkipTrivia(toks, a + 1)) = "{"
                           /\ Words(SkipTrivia(toks, a + 1)) # {}}
         IN IF Arrows = {} THEN 0
            ELSE LET a == CHOOSE x \in Arrows : \A y \in Arrows : y <= x
                     ws == Words(SkipTrivia(toks, a + 1))
                 IN (CHOOSE c \in ws : \A d \in ws : d <= c) - i + 1

\* The number of tokens forbiddenPatterns[p] matches at token i, 0 for no match.
MatchLen(p, toks, i) ==
    CASE p = 1 ->
           IF EndsWord(toks[i], sFetch) /\ TokAt(toks, SkipTrivia(toks, i + 1)) = "("
           THEN SkipTrivia(toks, i + 1) - i + 1
           ELSE IF toks[i].t = "str" /\ Includes(toks[i].v, sFetch \o <<"(">>) THEN 1
           ELSE 0
      [] p = 2 ->
           IF EndsWord(toks[i], sAxios) /\ TokAt(toks, i + 1) = "." THEN 2 ELSE 0
      [] p \in 3..6 ->
           IF /\ toks[i].t = "."
              /\ TokAt(toks, i + 1) = "id"
              /\ toks[i + 1].v = HttpMethods[p - 2]
              /\ TokAt(toks, SkipTrivia(toks, i + 2)) = "("
           THEN SkipTrivia(toks, i + 2) - i + 1
           ELSE 0
      [] p = 7 -> EffectMatchLen(toks, i, sFetch)
      [] p = 8 -> EffectMatchLen(toks, i, sAxios)

\* sourceText.matchAll(new RegExp(pattern.source, "g")): the match indices, from
\* token i on; a search resumes where the previous match ended.
RECURSIVE MatchAll(_, _, _)
MatchAll(p, toks, i) ==
    IF i > Len(toks) THEN <<>>
    ELSE IF MatchLen(p, toks, i) > 0
         THEN <<i - 1>> \o MatchAll(p, toks, i + MatchLen(p, toks, i))
    ELSE MatchAll(p, toks, i + 1)

NumForbiddenPatterns == 8

\* createDataFetchingInUIRule().execute
DataFetchingExecute(ctx) ==
    IF ~ctx.architecture.rules.noDataFetchingInUI THEN EmptyPass
    ELSE LET sourceFile == parseTypeScript(ctx.sourceCode, ctx.filePath) IN
         IF ~isReactComponentFile(sourceFile) THEN EmptyPass
         ELSE RuleResult(Flatten(
                  [p \in 1..NumForbiddenPatterns |->
                      LET matches == MatchAll(p, ctx.sourceCode, 1)
                      IN [k \in 1..Len(matches) |->
                             Violation(ctx.filePath,
                                 getLineAndCharacterOfPosition(sourceFile, matches[k]),
                                 "Data fetching in UI component violates architecture",
                                 <<>>, "no-data-fetching-in-ui")]]))

-----------------------------------------------------------------------------
\* Import graph and cycles. An ImportGraph is a sequence of [key, value] entries
\* with distinct keys, in the object's key order; value is the adjacency list.

\* Object.keys(graph)
GraphKeys(graph) == [i \in 1..Len(graph) |-> graph[i].key]

\* graph[node] || []
Neighbors(graph, node) ==
    IF \E i \in 1..Len(graph) : graph[i].key = node
    THEN graph[CHOOSE i \in 1..Len(graph) : graph[i].key = node].value
    ELSE <<>>

\* path.indexOf(node), 1-based; 0 for -1
IndexOf(path, node) ==
    IF \E i \in 1..Len(path) : path[i] = node
    THEN CHOOSE i \in 1..Len(path) : path[i] = node /\ \A j \in 1..(i - 1) : path[j] # node
    ELSE 0

\* The closure state of detectCycles: cycles, visited, recStack, path; calls is
\* the trace of the calls of dfs, by their argument.
RECURSIVE dfs(_, _, _)
RECURSIVE DfsNeighborLoop(_, _, _, _)
RECURSIVE DfsNeighborLoopWholePath(_, _, _, _)
RECURSIVE DfsNeighborLoopNoSelf(_, _, _, _)

\* DfsNeighborLoop with the cycle taken as the whole current path instead of its
\* slice from cycleStart.
DfsNeighborLoopWholePath(graph, neighbors, k, st) ==
    IF k > Len(neighbors) THEN st
    ELSE LET neighbor == neighbors[k]
             st1 == IF neighbor \notin st.visited THEN dfs(graph, neighbor, st)
                    ELSE IF neighbor \in st.recStack
                         THEN [st EXCEPT !.cycles = Append(@, st.path \o <<neighbor>>)]
                    ELSE st
         IN DfsNeighborLoopWholePath(graph, neighbors, k + 1, st1)

\* DfsNeighborLoop that finds the start of the cycle among the files before the
\* current one only (indexOf on the path without its last element).
DfsNeighborLoopNoSelf(graph, neighbors, k, st) ==
    IF k > Len(neighbors) THEN st
    ELSE LET neighbor == neighbors[k]
             st1 == IF neighbor \notin st.visited THEN dfs(graph, neighbor, st)
                    ELSE IF neighbor \in st.recStack
                         THEN LET cycleStart ==
                                      IndexOf(SubSeq(st.path, 1, Len(st.path) - 1), neighbor)
                              IN IF cycleStart # 0
                                 THEN [st EXCEPT !.cycles = Append(@,
                                          SubSeq(st.path, cycleStart, Len(st.path))
                                              \o <<neighbor>>)]
                                 ELSE st
                    ELSE st
         IN DfsNeighborLoopNoSelf(graph, neighbors, k + 1, st1)

\* The for loop of dfs over neighbors, from index k on.
DfsNeighborLoop(graph, neighbors, k, st) ==
    IF k > Len(neighbors) THEN st
    ELSE LET neighbor == neighbors[k]
             st1 == IF neighbor \notin st.visited THEN dfs(graph, neighbor, st)
                    ELSE IF neighbor \in st.recStack
                         THEN LET cycleStart == IndexOf(st.path, neighbor)
                              IN IF cycleStart # 0
                                 THEN [st EXCEPT !.cycles = Append(@,
                                          SubSeq(st.path, cycleStart, Len(st.path))
                                              \o <<neighbor>>)]
                                 ELSE st
                    ELSE st
         IN DfsNeighborLoop(graph, neighbors, k + 1, st1)

\* dfs without recStack.delete(node) and path.pop() at its end.
dfsNoPop(graph, node, st) ==
    DfsNeighborLoop(graph, Neighbors(graph, node), 1,
        [st EXCEPT !.visited = @ \cup {node},
                   !.recStack = @ \cup {node},
                   !.path = Append(@, node),
                   !.calls = Append(@, node)])

dfs(graph, node, st) ==
    LET entered == [st EXCEPT !.visited = @ \cup {node},
                              !.recStack = @ \cup {node},
                              !.path = Append(@, node),
                              !.calls = Append(@, node)]
        after == DfsNeighborLoop(graph, Neighbors(graph, node), 1, entered)
    IN [after EXCEPT !.recStack = @ \ {node},
                     !.path = SubSeq(@, 1, Len(@) - 1)]

\* DetectCyclesLoop with a traversal from every key that forgets the files the
\* earlier traversals visited.
RECURSIVE DetectCyclesLoopFreshVisited(_, _, _)
DetectCyclesLoopFreshVisited(graph, k, st) ==
    IF k > Len(graph) THEN st
    ELSE DetectCyclesLoopFreshVisited(graph, k + 1,
             dfs(graph, graph[k].key, [st EXCEPT !.visited = {}]))

\* The for loop of detectCycles over Object.keys(graph), from index k on.
RECURSIVE DetectCyclesLoop(_, _, _)
DetectCyclesLoop(graph, k, st) ==
    IF k > Len(graph) THEN st
    ELSE DetectCyclesLoop(graph, k + 1,
             IF graph[k].key \notin st.visited THEN dfs(graph, graph[k].key, st)
             ELSE st)

\* detectCycles, with the closure state it ends in.
DetectCyclesState(graph) ==
    DetectCyclesLoop(graph, 1,
        [cycles |-> <<>>, visited |-> {}, recStack |-> {}, path |-> <<>>, calls |-> <<>>])

detectCycles(graph) == DetectCyclesState(graph).cycles

\* " \u2192 ": the arrow is one character
sArrow == <<" ", "->", " ">>

\* CircularDependencyExecute with every file of a cycle reporting it.
CircularDependencyExecuteEveryFile(ctx) ==
    IF ~ctx.architecture.rules.noCircularLayerDeps THEN EmptyPass
    ELSE IF ctx.importGraph = <<>> THEN EmptyPass
    ELSE LET cycles == detectCycles(ctx.importGraph[1])
         IN RuleResult(Flatten(
                [k \in 1..Len(cycles) |->
                    IF ctx.filePath \in Range(cycles[k])
                    THEN <<[file |-> ctx.filePath, line |-> 1, column |-> 1,
                            message |-> [text |-> "Circular dependency detected",
                                         args |-> <<Join(cycles[k], sArrow)>>],
                            rule |-> "no-circular-layer-deps"]>>
                    ELSE <<>>]))

\* createCircularDependencyRule().execute. The optional context.importGraph is a
\* sequence of at most one graph: empty when the field is absent.
CircularDependencyExecute(ctx) ==
    IF ~ctx.architecture.rules.noCircularLayerDeps THEN EmptyPass
    ELSE IF ctx.importGraph = <<>> THEN EmptyPass
    ELSE LET cycles == detectCycles(ctx.importGraph[1])
         IN RuleResult(Flatten(
                [k \in 1..Len(cycles) |->
                    IF ctx.filePath = SortedFirst(cycles[k])
                    THEN <<[file |-> ctx.filePath, line |-> 1, column |-> 1,
                            message |-> [text |-> "Circular dependency detected",
                                         args |-> <<Join(cycles[k], sArrow)>>],
                            rule |-> "no-circular-layer-deps"]>>
                    ELSE <<>>]))

\* The number of detectCycles calls rule.execute(context) makes: one in the
\* circular dependency rule when its toggle is on and the context has a graph.
DetectCyclesCalls(ruleName, ctx) ==
    IF /\ ruleName = "no-circular-layer-deps"
       /\ ctx.architecture.rules.noCircularLayerDeps
       /\ ctx.importGraph # <<>>
    THEN 1 ELSE 0

-----------------------------------------------------------------------------
\* Rule engine of packages/core. A Rule is identified by its name.

RuleNames == <<"layer-import-boundary", "no-business-logic-in-components",
               "no-data-fetching-in-ui", "no-circular-layer-deps">>

\* rule.execute(context)
Execute(ruleName, ctx) ==
    CASE ruleName = "layer-import-boundary" -> LayerImportBoundaryExecute(ctx)
      [] ruleName = "no-business-logic-in-components" -> BusinessLogicExecute(ctx)
      [] ruleName = "no-data-fetching-in-ui" -> DataFetchingExecute(ctx)
      [] ruleName = "no-circular-layer-deps" -> CircularDependencyExecute(ctx)

\* RuleEngine.registerRule: this.rules.push(rule)
registerRule(engineRules, rule) == Append(engineRules, rule)

\* allViolations.push(...result.violations) in executeRules, for the result of
\* one rule: acc is [violations, calls, results], calls the trace of the rules
\* whose execute has been called and results what each call returned.
PushRuleResult(acc, rule, ruleResult) ==
    [violations |-> acc.violations \o ruleResult.violations,
     calls |-> Append(acc.calls, rule),
     results |-> Append(acc.results, ruleResult)]

\* ExecuteRulesStep that leaves out the rules that report nothing.
ExecuteRulesStepSkipPassing(acc, rule, ctx) ==
    IF Execute(rule, ctx).passed THEN acc
    ELSE PushRuleResult(acc, rule, Execute(rule, ctx))

\* One iteration of the for loop of executeRules
ExecuteRulesStep(acc, rule, ctx) == PushRuleResult(acc, rule, Execute(rule, ctx))

\* The for loop of executeRules, from rule k on.
RECURSIVE ExecuteRulesLoop(_, _, _, _)
ExecuteRulesLoop(engineRules, ctx, k, acc) ==
    IF k > Len(engineRules) THEN acc
    ELSE ExecuteRulesLoop(engineRules, ctx, k + 1,
                          ExecuteRulesStep(acc, engineRules[k], ctx))

\* return { violations: allViolations, passed: allViolations.length === 0 }
EngineResult(acc) ==
    [violations |-> acc.violations,
     passed |-> Len(acc.violations) = 0,
     calls |-> acc.calls,
     results |-> acc.results]

\* RuleEngine.executeRules(context), with the trace of its execute calls and
\* of what they returned
executeRules(engineRules, ctx) ==
    EngineResult(ExecuteRulesLoop(engineRules, ctx, 1,
                     [violations |-> <<>>, calls |-> <<>>, results |-> <<>>]))

-----------------------------------------------------------------------------
\* File system. fs is the sequence of regular files [path, content] in the order
\* the directories list them; a directory exists when a file lies under it.

\* fs.existsSync(p) && fs.statSync(p).isFile()
IsFile(files, p) == \E k \in 1..Len(files) : files[k].path = p

IsDirectory(files, p) ==
    \E k \in 1..Len(files) :
        StartsWith(files[k].path, IF p = <<"/">> THEN p ELSE p \o <<"/">>)

\* fs.existsSync(p)
ExistsSync(files, p) == IsFile(files, p) \/ IsDirectory(files, p)

\* fs.readFileSync(p, "utf-8")
ReadFileSync(files, p) ==
    files[CHOOSE k \in 1..Len(files) : files[k].path = p].content

\* Removes repeated elements, keeping first occurrences.
RECURSIVE Distinct(_)
Distinct(s) ==
    IF s = <<>> THEN <<>>
    ELSE LET front == Distinct(SubSeq(s, 1, Len(s) - 1))
         IN IF s[Len(s)] \in Range(front) THEN front ELSE Append(front, s[Len(s)])

\* fs.readdirSync(dir, {withFileTypes: true}): [name, isDirectory]
ReaddirSync(files, dir) ==
    LET prefix == IF dir = <<"/">> THEN dir ELSE dir \o <<"/">>
        under == SelectSeq(files, LAMBDA f : StartsWith(f.path, prefix))
    IN Distinct([k \in 1..Len(under) |->
           LET rest == SplitSlash(SubSeq(under[k].path, Len(prefix) + 1,
                                         Len(under[k].path)))
           IN [name |-> rest[1], isDirectory |-> Len(rest) > 1]])

sNodeModules == <<"n", "o", "d", "e", "_", "m", "o", "d", "u", "l", "e", "s">>
sDist == <<"d", "i", "s", "t">>
sBuild == <<"b", "u", "i", "l", "d">>
sDotGit == <<".", "g", "i", "t">>
sDotCursor == <<".", "c", "u", "r", "s", "o", "r">>
ignoreDirs == {sNodeModules, sDist, sBuild, sDotGit, sDotCursor}

extTs == <<".", "t", "s">>
extTsx == <<".", "t", "s", "x">>
extJs == <<".", "j", "s">>
extJsx == <<".", "j", "s", "x">>

\* walk(currentDir) of findTypeScriptFiles: the files it pushes
RECURSIVE walk(_, _)
walk(files, currentDir) ==
    LET entries == ReaddirSync(files, currentDir)
    IN Flatten([k \in 1..Len(entries) |->
           LET fullPath == PathJoin(currentDir, entries[k].name)
           IN IF entries[k].isDirectory
              THEN (IF entries[k].name \notin ignoreDirs THEN walk(files, fullPath)
                    ELSE <<>>)
              ELSE IF EndsWith(entries[k].name, extTs) \/ EndsWith(entries[k].name, extTsx)
                   THEN <<fullPath>>
              ELSE <<>>])

findTypeScriptFiles(files, dir) == walk(files, dir)

\* The first candidate of resolved + ext that exists, over exts from index k on.
RECURSIVE FirstExisting(_, _, _, _)
FirstExisting(files, resolved, exts, k) ==
    IF k > Len(exts) THEN Null
    ELSE IF ExistsSync(files, resolved \o exts[k]) THEN resolved \o exts[k]
    ELSE FirstExisting(files, resolved, exts, k + 1)

sIndex == <<"/", "i", "n", "d", "e", "x">>

\* resolveImportPath with the index files tried before the extensions.
resolveImportPathIndexFirst(files, importPath, fromFile) ==
    LET resolved == PathResolve(PathDirname(fromFile), importPath)
        withExt == FirstExisting(files, resolved, <<extTs, extTsx, extJs, extJsx>>, 1)
        withIndex == FirstExisting(files, resolved,
            <<sIndex \o extTs, sIndex \o extTsx, sIndex \o extJs, sIndex \o extJsx>>, 1)
    IN IF ExistsSync(files, resolved) /\ IsFile(files, resolved) THEN resolved
       ELSE IF withIndex # Null THEN withIndex
       ELSE withExt

\* resolveImportPath(importPath, fromFile): a path or Null
resolveImportPath(files, importPath, fromFile) ==
    LET resolved == PathResolve(PathDirname(fromFile), importPath)
        withExt == FirstExisting(files, resolved, <<extTs, extTsx, extJs, extJsx>>, 1)
        withIndex == FirstExisting(files, resolved,
            <<sIndex \o extTs, sIndex \o extTsx, sIndex \o extJs, sIndex \o extJsx>>, 1)
    IN IF ExistsSync(files, resolved) /\ IsFile(files, resolved) THEN resolved
       ELSE IF withExt # Null THEN withExt
       ELSE withIndex

\* RelativeImports without the test of fileSet: every resolved import is kept.
RelativeImportsUnfiltered(files, sources, filePath) ==
    LET imports == extractImports(parseTypeScript(ReadFileSync(files, filePath), filePath))
    IN Flatten([k \in 1..Len(imports) |->
           IF StartsWith(imports[k].from, <<".">>) \/ StartsWith(imports[k].from, <<"/">>)
           THEN IF resolveImportPath(files, imports[k].from, filePath) # Null
                THEN <<resolveImportPath(files, imports[k].from, filePath)>> ELSE <<>>
           ELSE <<>>])

\* The body of the outer for loop of buildImportGraph: relativeImports of a file
RelativeImports(files, sources, filePath) ==
    LET sourceCode == ReadFileSync(files, filePath)
        ast == parseTypeScript(sourceCode, filePath)
        imports == extractImports(ast)
    IN Flatten([k \in 1..Len(imports) |->
           IF StartsWith(imports[k].from, <<".">>) \/ StartsWith(imports[k].from, <<"/">>)
           THEN LET resolvedPath == resolveImportPath(files, imports[k].from, filePath)
                IN IF resolvedPath # Null /\ resolvedPath \in Range(sources)
                   THEN <<resolvedPath>> ELSE <<>>
           ELSE <<>>])

\* buildImportGraph(sourceFiles, cwd)
buildImportGraph(files, sources) ==
    [k \in 1..Len(sources) |->
        [key |-> sources[k], value |-> RelativeImports(files, sources, sources[k])]]

-----------------------------------------------------------------------------
\* Configuration (packages/core/src/config.ts). configDoc is [at, doc]: at the
\* path of the architecture.yaml file (Null if there is none), doc what parseYaml
\* returns: [isObject, layersIsObject, layers, rules], layers a sequence of
\* [name, isObject, allowedIsArray, allowedImports], rules a function from the
\* toggles the document sets to their values.

sArchitectureYaml == <<"a", "r", "c", "h", "i", "t", "e", "c", "t", "u", "r", "e",
                       ".", "y", "a", "m", "l">>

\* findArchitectureConfig(startPath): the while loop from currentPath on
RECURSIVE FindConfigLoop(_, _)
FindConfigLoop(doc, currentPath) ==
    IF currentPath = PathDirname(currentPath) THEN Null
    ELSE IF doc.at = PathJoin(currentPath, sArchitectureYaml)
         THEN PathJoin(currentPath, sArchitectureYaml)
    ELSE FindConfigLoop(doc, PathDirname(currentPath))

findArchitectureConfig(doc, startPath) ==
    FindConfigLoop(doc, PathResolve(<<"/">>, startPath))

Toggles == {"noBusinessLogicInComponents", "noDataFetchingInUI",
            "enforceFeatureBoundaries", "noCircularLayerDeps"}

\* rules.toggle ?? true
ToggleOrTrue(rawRules, toggle) ==
    IF toggle \in DOMAIN rawRules THEN rawRules[toggle] ELSE TRUE

\* rules.toggle ?? false
ToggleOrFalse(rawRules, toggle) ==
    IF toggle \in DOMAIN rawRules THEN rawRules[toggle] ELSE FALSE

\* validateArchitectureConfig without the test of allowedImports: a layer whose
\* allowedImports is not an array is accepted with an empty list.
validateArchitectureConfigNoArrayCheck(config) ==
    IF ~config.isObject \/ ~config.layersIsObject
          \/ \E k \in 1..Len(config.layers) : ~config.layers[k].isObject
    THEN [ok |-> FALSE, error |-> "Invalid architecture config", value |-> Null]
    ELSE [ok |-> TRUE, error |-> "",
          value |->
             [layers |-> [k \in 1..Len(config.layers) |->
                             [name |-> config.layers[k].name,
                              allowedImports |->
                                  IF config.layers[k].allowedIsArray
                                  THEN config.layers[k].allowedImports ELSE <<>>]],
              rules |-> [t \in Toggles |-> ToggleOrFalse(config.rules, t)]]]

\* validateArchitectureConfig(config): [ok, error, value]
validateArchitectureConfig(config) ==
    LET Fail(msg) == [ok |-> FALSE, error |-> msg, value |-> Null]
    IN IF ~config.isObject
       THEN Fail("Invalid architecture config: must be an object")
       ELSE IF ~config.layersIsObject
       THEN Fail("Invalid architecture config: 'layers' must be an object")
       ELSE IF \E k \in 1..Len(config.layers) :
                   ~config.layers[k].isObject \/ ~config.layers[k].allowedIsArray
       THEN LET k == CHOOSE i \in 1..Len(config.layers) :
                         /\ ~config.layers[i].isObject \/ ~config.layers[i].allowedIsArray
                         /\ \A j \in 1..(i - 1) :
                                config.layers[j].isObject /\ config.layers[j].allowedIsArray
            IN IF ~config.layers[k].isObject
               THEN Fail("Invalid layer config: must be an object")
               ELSE Fail("Invalid layer config: 'allowedImports' must be an array")
       ELSE [ok |-> TRUE, error |-> "",
             value |->
                [layers |-> [k \in 1..Len(config.layers) |->
                                [name |-> config.layers[k].name,
                                 allowedImports |-> config.layers[k].allowedImports]],
                 rules |->
                    [noBusinessLogicInComponents |->
                         ToggleOrFalse(config.rules, "noBusinessLogicInComponents"),
                     noDataFetchingInUI |->
                         ToggleOrFalse(config.rules, "noDataFetchingInUI"),
                     enforceFeatureBoundaries |->
                         ToggleOrFalse(config.rules, "enforceFeatureBoundaries"),
                     noCircularLayerDeps |->
                         ToggleOrFalse(config.rules, "noCircularLayerDeps")]]]

\* loadArchitectureConfig(configPath): [ok, error, value]
loadArchitectureConfig(doc, configPath) ==
    IF doc.at # configPath
    THEN [ok |-> FALSE, error |-> "Architecture config not found", value |-> Null]
    ELSE validateArchitectureConfig(doc.doc)

-----------------------------------------------------------------------------
\* The projects the check command is run on.

Cwd == <<"/", "p">>

sUi == <<"u", "i">>
sDomain == <<"d", "o", "m", "a", "i", "n">>
sFeatures == <<"f", "e", "a", "t", "u", "r", "e", "s">>
sShared == <<"s", "h", "a", "r", "e", "d">>
sReact == <<"r", "e", "a", "c", "t">>

fileA == Cwd \o <<"/">> \o sUi \o <<"/", "a">> \o extTs
fileB == Cwd \o <<"/">> \o sUi \o <<"/", "b">> \o extTs
fileIndex == Cwd \o <<"/">> \o sDomain \o sIndex \o extTs
fileBJs == Cwd \o <<"/">> \o sUi \o <<"/", "b">> \o extJs
fileDistC == Cwd \o <<"/">> \o sDist \o <<"/", "c">> \o extTs

specA == <<".", "/", "a">>
specB == <<".", "/", "b">>
specDomainIndex == <<".", ".", "/">> \o sDomain \o sIndex
specDomainDir == <<".", ".", "/">> \o sDomain
specUiA == <<".", ".", "/">> \o sUi \o <<"/", "a">>
specUiB == <<".", ".", "/">> \o sUi \o <<"/", "b">>
specDistC == <<".", ".", "/">> \o sDist \o <<"/", "c">>

\* import 'specifier'
ImportLine(specifier) == <<Kw("import"), Str(specifier), NL>>

\* function UserList() { for (;;) {}; fetch('/x') }
bodyUserList ==
    <<Kw("function"), Id(<<"U", "s", "e", "r", "L", "i", "s", "t">>), Kw("("), Kw(")"),
      Kw("{"), NL,
      Kw("for"), Kw("("), Kw(";"), Kw(";"), Kw(")"), Kw("{"), Kw("}"), NL,
      Id(sFetch), Kw("("), Str(<<"/", "x">>), Kw(")"), NL,
      Kw("}"), NL>>

\* A source text: its import lines, then its body.
Source(specifiers, body) ==
    Flatten([k \in 1..Len(specifiers) |-> ImportLine(specifiers[k])]) \o body

SourcesOfA ==
    {Source(<<>>, <<>>), Source(<<specB>>, <<>>), Source(<<specDomainDir>>, <<>>),
     Source(<<sReact>>, bodyUserList),
     Source(<<sReact, specDomainIndex>>, bodyUserList),
     Source(<<specB, specDomainIndex, specB>>, <<>>)}

SourcesOfB ==
    {Source(<<>>, <<>>), Source(<<specA>>, <<>>), Source(<<specDomainIndex>>, <<>>),
     Source(<<specDomainIndex, specA>>, bodyUserList)}

SourcesOfIndex ==
    {Source(<<>>, <<>>), Source(<<specUiA>>, <<>>), Source(<<specUiB, specUiA>>, <<>>)}

File(path, content) == [path |-> path, content |-> content]

\* Trees with files the walk leaves out: ui/b.js beside ui/a.ts, and dist/c.ts
\* in an ignored directory, each importing ui/a.ts and imported by it.
TreesWithUnwalkedFiles ==
    {<<File(fileA, Source(<<specB>>, <<>>)), File(fileBJs, Source(<<specA>>, <<>>))>>,
     <<File(fileDistC, Source(<<specUiA>>, <<>>)), File(fileA, Source(<<specDistC, specB>>, <<>>)),
       File(fileB, Source(<<specA>>, <<>>))>>}

\* The file trees: ui/a.ts and ui/b.ts, with or without domain/index.ts, the
\* directory entries listed in one order or the other, and the trees with files
\* the walk leaves out.
FileTrees ==
    TreesWithUnwalkedFiles \cup
    UNION {
        { <<File(fileA, a), File(fileB, b)>>,
          <<File(fileB, b), File(fileA, a)>> }
        \cup
        { <<File(fileA, a), File(fileB, b), File(fileIndex, i)>> : i \in SourcesOfIndex }
        \cup
        { <<File(fileIndex, i), File(fileB, b), File(fileA, a)>> : i \in SourcesOfIndex }
        : a \in SourcesOfA, b \in SourcesOfB }

Layer(name, allowedImports) == [name |-> name, allowedImports |-> allowedImports]

\* The layers of getDefaultConfig, as parseYaml returns them.
DefaultLayers ==
    <<Layer(sDomain, <<>>), Layer(sFeatures, <<sDomain, sShared>>),
      Layer(sUi, <<sFeatures, sShared>>)>>

\* The same layers with ui allowed to import domain.
PermissiveLayers ==
    <<Layer(sDomain, <<>>), Layer(sFeatures, <<sDomain, sShared>>),
      Layer(sUi, <<sDomain, sFeatures>>)>>

RawLayers(layers) ==
    [k \in 1..Len(layers) |->
        [name |-> layers[k].name, isObject |-> TRUE, allowedIsArray |-> TRUE,
         allowedImports |-> layers[k].allowedImports]]

\* The rules sections: every toggle true (getDefaultConfig), no rules section,
\* every toggle false, and two toggles true with the others absent.
RawRulesOptions ==
    {[t \in Toggles |-> TRUE], [t \in {} |-> TRUE], [t \in Toggles |-> FALSE],
     [t \in {"enforceFeatureBoundaries", "noCircularLayerDeps"} |-> TRUE],
     [t \in {"noBusinessLogicInComponents", "noDataFetchingInUI"} |-> TRUE]}

Doc(isObject, layersIsObject, layers, rawRules) ==
    [isObject |-> isObject, layersIsObject |-> layersIsObject, layers |-> layers,
     rules |-> rawRules]

ValidDocs ==
    {Doc(TRUE, TRUE, RawLayers(DefaultLayers), r) : r \in RawRulesOptions}
    \cup {Doc(TRUE, TRUE, RawLayers(PermissiveLayers), [t \in Toggles |-> TRUE])}

\* Documents validateArchitectureConfig rejects.
InvalidDocs ==
    {Doc(FALSE, FALSE, <<>>, [t \in Toggles |-> TRUE]),
     Doc(TRUE, FALSE, <<>>, [t \in Toggles |-> TRUE]),
     Doc(TRUE, TRUE, [RawLayers(DefaultLayers) EXCEPT ![2].isObject = FALSE],
         [t \in Toggles |-> TRUE]),
     Doc(TRUE, TRUE, [RawLayers(DefaultLayers) EXCEPT ![3].allowedIsArray = FALSE],
         [t \in Toggles |-> TRUE])}

ConfigDocs ==
    {[at |-> PathJoin(Cwd, sArchitectureYaml), doc |-> d] : d \in ValidDocs \cup InvalidDocs}
    \cup {[at |-> PathJoin(<<"/">>, sArchitectureYaml),
           doc |-> Doc(TRUE, TRUE, RawLayers(DefaultLayers), [t \in Toggles |-> TRUE])],
          [at |-> Null,
           doc |-> Doc(TRUE, TRUE, RawLayers(DefaultLayers), [t \in Toggles |-> TRUE])]}

-----------------------------------------------------------------------------
\* The check command (packages/cli: runChecks and the action of "check").

\* Number of check runs a behaviour makes on the same project.
MaxRuns == 2

\* The value of a variable no statement has assigned yet.
NoArchitecture ==
    [layers |-> <<>>,
     rules |-> [noBusinessLogicInComponents |-> FALSE, noDataFetchingInUI |-> FALSE,
                enforceFeatureBoundaries |-> FALSE, noCircularLayerDeps |-> FALSE]]

NoContext ==
    [filePath |-> <<>>, sourceCode |-> <<>>, ast |-> parseTypeScript(<<>>, <<>>),
     imports |-> <<>>, architecture |-> NoArchitecture, importGraph |-> <<>>]

NoResult == [violations |-> <<>>, passed |-> TRUE, calls |-> <<>>, results |-> <<>>]

\* An engine that outlives the call of runChecks: the rules registered so far.
StaleEngine == rules

\* new RuleEngine(): private rules: Rule[] = []
FreshEngine == <<>>

\* The variables of a process before its first statement.
ProcessStart ==
    /\ architecture = NoArchitecture
    /\ rules = <<>>
    /\ sourceFiles = <<>>
    /\ importGraph = <<>>
    /\ fileIdx = 0
    /\ allViolations = <<>>
    /\ context = NoContext
    /\ result = NoResult
    /\ executed = <<>>
    /\ exitCode = 0

Init ==
    /\ pc = "start"
    /\ fs \in FileTrees
    /\ configDoc \in ConfigDocs
    /\ ProcessStart
    /\ run = 1
    /\ prevViolations = <<>>
    /\ probe = <<>>

\* The control points before the four engine.registerRule calls of runChecks.
RegisterPc == <<"register1", "register2", "register3", "register4">>

\* runChecks, lines 541-549: the configuration is found and loaded, the engine
\* created; an exception ends the process with status 1 (action of "check").
LoadConfig ==
    /\ pc = "start"
    /\ LET configPath == findArchitectureConfig(configDoc, Cwd)
           loaded == loadArchitectureConfig(configDoc, configPath)
       IN IF configPath = Null \/ ~loaded.ok
          THEN /\ pc' = "error"
               /\ exitCode' = 1
               /\ probe' = <<IF configPath = Null THEN "architecture.yaml not found"
                              ELSE loaded.error>>
               /\ UNCHANGED <<architecture, rules>>
          ELSE /\ pc' = RegisterPc[1]
               /\ architecture' = loaded.value
               /\ rules' = FreshEngine
               /\ UNCHANGED <<exitCode, probe>>
    /\ UNCHANGED <<fs, configDoc, sourceFiles, importGraph, fileIdx, allViolations,
                   context, result, executed, run, prevViolations>>

\* runChecks, lines 551-554: the k-th engine.registerRule call
RegisterRule ==
    \E k \in 1..Len(RegisterPc) :
        /\ pc = RegisterPc[k]
        /\ rules' = registerRule(rules, RuleNames[k])
        /\ pc' = IF k = Len(RegisterPc) THEN "files" ELSE RegisterPc[k + 1]
    /\ UNCHANGED <<fs, configDoc, architecture, sourceFiles, importGraph, fileIdx,
                   allViolations, context, result, executed, exitCode, run,
                   prevViolations, probe>>

\* runChecks, line 556
FindFiles ==
    /\ pc = "files"
    /\ sourceFiles' = findTypeScriptFiles(fs, Cwd)
    /\ pc' = "graph"
    /\ UNCHANGED <<fs, configDoc, architecture, rules, importGraph, fileIdx,
                   allViolations, context, result, executed, exitCode, run,
                   prevViolations, probe>>

\* runChecks, lines 557-558
BuildGraph ==
    /\ pc = "graph"
    /\ importGraph' = buildImportGraph(fs, sourceFiles)
    /\ allViolations' = <<>>
    /\ fileIdx' = 0
    /\ pc' = "check"
    /\ UNCHANGED <<fs, configDoc, architecture, rules, sourceFiles, context, result,
                   executed, exitCode, run, prevViolations, probe>>

\* RuleContextOf with a graph that is still being built: the entries of the files
\* up to filePath only.
RuleContextOfPartialGraph(files, filePath, arch, graph) ==
    [filePath |-> filePath, sourceCode |-> ReadFileSync(files, filePath),
     ast |-> parseTypeScript(ReadFileSync(files, filePath), filePath),
     imports |-> extractImports(parseTypeScript(ReadFileSync(files, filePath), filePath)),
     architecture |-> arch,
     importGraph |-> <<SubSeq(graph, 1,
                          CHOOSE k \in 1..Len(graph) : graph[k].key = filePath)>>]

\* The RuleContext runChecks builds for a file (lines 561-572).
RuleContextOf(files, filePath, arch, graph) ==
    LET sourceCode == ReadFileSync(files, filePath)
        ast == parseTypeScript(sourceCode, filePath)
    IN [filePath |-> filePath, sourceCode |-> sourceCode, ast |-> ast,
        imports |-> extractImports(ast), architecture |-> arch,
        importGraph |-> <<graph>>]

\* What the for loop of runChecks pushes to allViolations for one result.
PushViolations(violations, ruleResult) == violations \o ruleResult.violations

\* runChecks, lines 560-576: one iteration of the for loop over sourceFiles
ProcessFile ==
    /\ pc = "check"
    /\ fileIdx < Len(sourceFiles)
    /\ \E ctx \in {RuleContextOf(fs, sourceFiles[fileIdx + 1], architecture, importGraph)} :
          \E res \in {executeRules(rules, ctx)} :
             /\ context' = ctx
             /\ result' = res
             /\ allViolations' = PushViolations(allViolations, res)
             /\ executed' = executed \o
                    [k \in 1..Len(res.calls) |->
                        <<res.calls[k], ctx.filePath, DetectCyclesCalls(res.calls[k], ctx)>>]
    /\ fileIdx' = fileIdx + 1
    /\ UNCHANGED <<pc, fs, configDoc, architecture, rules, sourceFiles, importGraph,
                   exitCode, run, prevViolations, probe>>

\* What runChecks returns (lines 578-592).
RunResult(violations) ==
    IF Len(violations) > 0
    THEN [passed |-> FALSE, violationCount |-> Len(violations)]
    ELSE [passed |-> TRUE, violationCount |-> 0]

\* The exit status of the action of "check" for a result of runChecks.
ExitStatus(runResult) == IF ~runResult.passed THEN 1 ELSE 0

\* runChecks, lines 578-592, and the action of "check", lines 431-434
Report ==
    /\ pc = "check"
    /\ fileIdx = Len(sourceFiles)
    /\ exitCode' = ExitStatus(RunResult(allViolations))
    /\ pc' = "done"
    /\ UNCHANGED <<fs, configDoc, architecture, rules, sourceFiles, importGraph, fileIdx,
                   allViolations, context, result, executed, run, prevViolations, probe>>

\* The check command is run again on the unchanged project. The variables of
\* runChecks keep what the previous call left in them until its statements
\* assign them.
NewRun ==
    /\ pc \in {"done", "error"}
    /\ run < MaxRuns
    /\ run' = run + 1
    /\ prevViolations' = allViolations
    /\ pc' = "start"
    /\ exitCode' = 0
    /\ executed' = <<>>
    /\ probe' = <<>>
    /\ UNCHANGED <<fs, configDoc, architecture, rules, sourceFiles, importGraph, fileIdx,
                   allViolations, context, result>>

Next ==
    \/ LoadConfig
    \/ RegisterRule
    \/ FindFiles
    \/ BuildGraph
    \/ ProcessFile
    \/ Report
    \/ NewRun

Spec == Init /\ [][Next]_vars

\* The configuration toggle that governs a rule.
ToggleOf(ruleName) ==
    CASE ruleName = "layer-import-boundary" -> "enforceFeatureBoundaries"
      [] ruleName = "no-business-logic-in-components" -> "noBusinessLogicInComponents"
      [] ruleName = "no-data-fetching-in-ui" -> "noDataFetchingInUI"
      [] ruleName = "no-circular-layer-deps" -> "noCircularLayerDeps"

\* The toggle is false or absent in the rules section of the configuration file.
ToggledOff(toggle) ==
    toggle \notin DOMAIN configDoc.doc.rules \/ ~configDoc.doc.rules[toggle]

\* C3: each of the four rules returns an empty passing result when its toggle
\* is false or absent in the configuration, whatever the file holds.
DisabledRulesPass ==
    \A k \in 1..Len(result.calls) :
        ToggledOff(ToggleOf(result.calls[k])) => result.results[k] = EmptyPass

\* C3 witness: a rule whose toggle is off has been executed on a file it reports
\* when the toggle is on, and has returned the empty passing result.
DisabledRuleWitness ==
    \E k \in 1..Len(result.calls) :
        /\ ToggledOff(ToggleOf(result.calls[k]))
        /\ result.results[k] = EmptyPass
        /\ Execute(result.calls[k],
               [context EXCEPT !.architecture.rules =
                   [t \in Toggles |-> TRUE]]).violations # <<>>

\* a is before b, or equal to it, in the order of the UTF-16 code units.
LexLeq(a, b) ==
    \/ a = b
    \/ \E i \in 1..(Len(a) + 1) :
          /\ i <= Len(b)
          /\ \A j \in 1..(i - 1) : a[j] = b[j]
          /\ i = Len(a) + 1 \/ CharCode(a[i]) < CharCode(b[i])

\* The lexicographically smallest file of a cycle.
LexSmallest(cycle) ==
    CHOOSE f \in Range(cycle) : \A g \in Range(cycle) : LexLeq(f, g)

\* The violations of no-circular-layer-deps a run has collected.
CycleViolations ==
    SelectSeq(allViolations, LAMBDA v : v.rule = "no-circular-layer-deps")

\* C4: with noCircularLayerDeps enabled, each raw cycle the detector returns
\* yields exactly one violation of the run, reported by the lexicographically
\* smallest file of the cycle at line 1, column 1.
EachCycleReportedOnceBySmallestFile ==
    (pc = "done" /\ architecture.rules.noCircularLayerDeps) =>
        LET raw == detectCycles(importGraph)
        IN /\ Len(CycleViolations) = Len(raw)
           /\ \A k \in 1..Len(raw) :
                 LET reported == {i \in 1..Len(CycleViolations) :
                         CycleViolations[i].message.args = <<Join(raw[k], sArrow)>>}
                 IN /\ Cardinality(reported)
                           = Cardinality({j \in 1..Len(raw) : raw[j] = raw[k]})
                    /\ \A i \in reported :
                           /\ CycleViolations[i].file = LexSmallest(raw[k])
                           /\ CycleViolations[i].line = 1
                           /\ CycleViolations[i].column = 1

\* C4 witness: a.ts and b.ts import each other, the detector starts from b.ts,
\* and the one violation of the cycle is on a.ts at line 1, column 1.
CycleOnSmallestFileWitness ==
    /\ pc = "done"
    /\ architecture.rules.noCircularLayerDeps
    /\ Len(detectCycles(importGraph)) = 1
    /\ detectCycles(importGraph)[1][1] = fileB
    /\ Range(detectCycles(importGraph)[1]) = {fileA, fileB}
    /\ Len(CycleViolations) = 1
    /\ CycleViolations[1].file = fileA
    /\ CycleViolations[1].line = 1
    /\ CycleViolations[1].column = 1

\* C8: a rule's result, the engine's result and the run's result are passed
\* exactly when they carry no violation; the command exits non-zero exactly
\* when the run has violations, and non-zero on an error.
PassedIffNoViolations ==
    /\ \A k \in 1..Len(result.results) :
           result.results[k].passed <=> (result.results[k].violations = <<>>)
    /\ result.passed <=> (result.violations = <<>>)
    /\ pc = "done" =>
           /\ RunResult(allViolations).passed <=> (allViolations = <<>>)
           /\ (exitCode # 0) <=> (allViolations # <<>>)
    /\ pc = "error" => exitCode # 0

\* C8 witness: a run has ended with violations, a rule and the engine have
\* returned passed false, and the exit status is 1.
FailedRunWitness ==
    /\ pc = "done"
    /\ allViolations # <<>>
    /\ exitCode = 1
    /\ ~result.passed
    /\ \E k \in 1..Len(result.results) : ~result.results[k].passed

-----------------------------------------------------------------------------
\* Harness of the layer resolver: detectLayerFromPath is called on one path.

\* Longest path of the harness, in characters.
MaxPathLen == 6

PathChars == {"/", "\\", "u", "d"}

\* Strings over a set of characters, up to a length.
StringsUpTo(chars, n) == UNION {[1..k -> chars] : k \in 0..n}

ProbeLayerNames == {<<"u">>, <<"d">>, <<"u", "d">>}

\* Layer mappings of at most two layers, in every key order.
ProbeLayerMappings ==
    {<<>>}
    \cup {<<Layer(n, <<>>)>> : n \in ProbeLayerNames}
    \cup {l \in {<<Layer(n, <<>>), Layer(m, <<>>)>> :
                      n \in ProbeLayerNames, m \in ProbeLayerNames} :
             l[1].name # l[2].name}

\* The variables of the check command, which a harness leaves alone.
RunIdle ==
    /\ fs = <<>>
    /\ configDoc = [at |-> Null, doc |-> Doc(FALSE, FALSE, <<>>, [t \in {} |-> TRUE])]
    /\ architecture = NoArchitecture
    /\ sourceFiles = <<>>
    /\ importGraph = <<>>
    /\ fileIdx = 0
    /\ allViolations = <<>>
    /\ executed = <<>>
    /\ exitCode = 0
    /\ run = 1
    /\ prevViolations = <<>>

InitLayer ==
    /\ pc = "layer-call"
    /\ probe \in {[filePath |-> f, layers |-> l] :
                     f \in StringsUpTo(PathChars, MaxPathLen), l \in ProbeLayerMappings}
    /\ RunIdle
    /\ rules = <<>>
    /\ context = NoContext
    /\ result = [value |-> Null]

CallDetectLayer ==
    /\ pc = "layer-call"
    /\ result' = [value |-> detectLayerFromPath(probe.filePath, probe.layers)]
    /\ pc' = "layer-returned"
    /\ UNCHANGED <<fs, configDoc, architecture, rules, sourceFiles, importGraph, fileIdx,
                   allViolations, context, executed, exitCode, run, prevViolations, probe>>

NextLayer == CallDetectLayer

SpecLayer == InitLayer /\ [][NextLayer]_vars

\* A path separator, before normalization.
IsSeparator(c) == c = "/" \/ c = "\\"

\* The name occurs in the path as a whole segment with a separator on both sides.
OccursAsSegment(path, name) ==
    \E i \in 1..Len(path) :
        /\ i + Len(name) + 1 <= Len(path)
        /\ IsSeparator(path[i])
        /\ IsSeparator(path[i + Len(name) + 1])
        /\ \A k \in 1..Len(name) : path[i + k] = name[k]

\* The first layer of the mapping, in key order, that occurs as a segment.
FirstLayerOccurring(path, layers) ==
    IF \A k \in 1..Len(layers) : ~OccursAsSegment(path, layers[k].name) THEN Null
    ELSE layers[CHOOSE k \in 1..Len(layers) :
                    /\ OccursAsSegment(path, layers[k].name)
                    /\ \A j \in 1..(k - 1) : ~OccursAsSegment(path, layers[j].name)].name

\* C10: detectLayerFromPath returns the first layer name, in the key order of the
\* configured layers, that occurs in the path as a whole segment bounded by a
\* separator on both sides, and none when no layer name occurs so; of two layer
\* names in a path the one earlier in the configuration wins.
LayerResolutionFirstMatch ==
    pc = "layer-returned" =>
        result.value = FirstLayerOccurring(probe.filePath, probe.layers)

\* C10 witness: both layers of the mapping are segments of the path, the second
\* layer of the mapping comes first in the path, and the first layer is returned.
LayerResolutionWitness ==
    /\ pc = "layer-returned"
    /\ probe.filePath = <<"/", "d", "/", "u", "/">>
    /\ LayerNames(probe.layers) = << <<"u">>, <<"d">> >>
    /\ result.value = <<"u">>

-----------------------------------------------------------------------------
\* Harness of the cycle detector: detectCycles is called on one import graph.

\* Most import edges of a graph of the harness, repeated edges counted.
MaxEdges == 4

GraphNodes == {<<"a">>, <<"b">>, <<"c">>}

\* The orders in which the files can be keys of the graph.
KeyOrders ==
    {o \in [1..Cardinality(GraphNodes) -> GraphNodes] :
        \A i, j \in DOMAIN o : i # j => o[i] # o[j]}

EdgeLists ==
    UNION {[1..k -> [from : GraphNodes, to : GraphNodes]] : k \in 0..MaxEdges}

\* The graph with the keys in the given order and, for each key, the targets of
\* its edges in the order of the edge list.
GraphOf(keys, edges) ==
    [k \in 1..Len(keys) |->
        LET own == SelectSeq(edges, LAMBDA e : e.from = keys[k])
        IN [key |-> keys[k], value |-> [j \in 1..Len(own) |-> own[j].to]]]

ProbeGraphs == {GraphOf(keys, edges) : keys \in KeyOrders, edges \in EdgeLists}

InitCycles ==
    /\ pc = "cycles-call"
    /\ probe \in {[graph |-> g] : g \in ProbeGraphs}
    /\ RunIdle
    /\ rules = <<>>
    /\ context = NoContext
    /\ result = [cycles |-> <<>>, visited |-> {}, recStack |-> {}, path |-> <<>>, calls |-> <<>>]

CallDetectCycles ==
    /\ pc = "cycles-call"
    /\ result' = DetectCyclesState(probe.graph)
    /\ pc' = "cycles-returned"
    /\ UNCHANGED <<fs, configDoc, architecture, rules, sourceFiles, importGraph, fileIdx,
                   allViolations, context, executed, exitCode, run, prevViolations, probe>>

NextCycles == CallDetectCycles

SpecCycles == InitCycles /\ [][NextCycles]_vars

\* The graph has an import edge from x to y.
HasEdge(graph, x, y) ==
    \E k \in 1..Len(graph) :
        graph[k].key = x /\ \E j \in 1..Len(graph[k].value) : graph[k].value[j] = y

\* Sequences of distinct files of the graph.
DistinctPaths(graph) ==
    {q \in UNION {[1..n -> Range(GraphKeys(graph))] : n \in 1..Len(graph)} :
        \A i, j \in DOMAIN q : i # j => q[i] # q[j]}

\* The simple directed cycles of the graph, each as the sequence of its files
\* from some start file (the closing edge leads back to the first).
SimpleCycles(graph) ==
    {q \in DistinctPaths(graph) :
        /\ \A i \in 1..(Len(q) - 1) : HasEdge(graph, q[i], q[i + 1])
        /\ HasEdge(graph, q[Len(q)], q[1])}

\* y can be reached from x along import edges (or is x).
Reaches(graph, x, y) ==
    \E q \in DistinctPaths(graph) :
        /\ q[1] = x
        /\ q[Len(q)] = y
        /\ \A i \in 1..(Len(q) - 1) : HasEdge(graph, q[i], q[i + 1])

\* The returned sequence r is the simple cycle q, from some start node of it and
\* closed by that node.
IsCycleReport(r, q) ==
    /\ Len(r) = Len(q) + 1
    /\ r[Len(r)] = r[1]
    /\ \E shift \in 0..(Len(q) - 1) :
           \A i \in 1..Len(q) : r[i] = q[((i - 1 + shift) % Len(q)) + 1]

\* C5: detectCycles returns no cycle exactly when the import graph has no
\* directed cycle, for every key order and every order of the adjacency lists;
\* a file whose adjacency list holds the file itself is a cycle.
NoCycleIffAcyclic ==
    pc = "cycles-returned" =>
        ((result.cycles = <<>>) <=> (SimpleCycles(probe.graph) = {}))

\* C5 witness: the only edge of the graph is a self-loop, and it is returned.
SelfLoopWitness ==
    /\ pc = "cycles-returned"
    /\ \E n \in GraphNodes :
          /\ \A k \in 1..Len(probe.graph) :
                probe.graph[k].value = IF probe.graph[k].key = n THEN <<n>> ELSE <<>>
          /\ result.cycles = << <<n, n>> >>

\* C6 as claimed: every simple directed cycle of the graph is returned.
AllSimpleCyclesReturned ==
    pc = "cycles-returned" =>
        \A q \in SimpleCycles(probe.graph) :
            \E k \in 1..Len(result.cycles) : IsCycleReport(result.cycles[k], q)

\* C6 amended: every returned sequence is a simple directed cycle of the graph
\* (from a start node, closed by it), and for every simple directed cycle of the
\* graph a cycle is returned whose files and the files of that cycle import each
\* other transitively; not every simple cycle is returned.
ReturnedCyclesAreSimpleAndCoverComponents ==
    pc = "cycles-returned" =>
        /\ \A k \in 1..Len(result.cycles) :
               \E q \in SimpleCycles(probe.graph) : IsCycleReport(result.cycles[k], q)
        /\ \A q \in SimpleCycles(probe.graph) :
               \E k \in 1..Len(result.cycles) :
                   /\ Reaches(probe.graph, q[1], result.cycles[k][1])
                   /\ Reaches(probe.graph, result.cycles[k][1], q[1])

\* C6 witness: a graph with the simple cycles a-b-c and a-c, of which the
\* detector returns only the first.
MissedCycleWitness ==
    /\ pc = "cycles-returned"
    /\ probe.graph = <<[key |-> <<"a">>, value |-> << <<"b">>, <<"c">> >>],
                       [key |-> <<"b">>, value |-> << <<"c">> >>],
                       [key |-> <<"c">>, value |-> << <<"a">> >>]>>
    /\ result.cycles = << << <<"a">>, <<"b">>, <<"c">>, <<"a">> >> >>

-----------------------------------------------------------------------------
\* Harness of layer-import-boundary: the rule is executed on the context
\* runChecks builds for one file of a project.

\* Most import declarations of the file the harness checks.
MaxImports == 2

fileFeaturesF == Cwd \o <<"/">> \o sFeatures \o <<"/", "f">> \o extTs
fileLibC == Cwd \o <<"/", "l", "i", "b", "/", "c">> \o extTs

specFeaturesF == <<".", ".", "/">> \o sFeatures \o <<"/", "f">>
specLibC == <<".", ".", "/", "l", "i", "b", "/", "c">>

ProbeSpecifiers ==
    {specB, specDomainIndex, specDomainDir, specFeaturesF, specLibC, specUiB, sReact}

ProbeImportLists == UNION {[1..k -> ProbeSpecifiers] : k \in 0..MaxImports}

\* The files of the project whose imports the harness varies.
ProbeFiles == {fileA, fileIndex, fileLibC}

\* The project: the five files, the checked one with the given imports.
ProbeTree(filePath, specifiers) ==
    [k \in 1..5 |->
        LET path == <<fileA, fileB, fileIndex, fileFeaturesF, fileLibC>>[k]
        IN File(path, IF path = filePath THEN Source(specifiers, <<>>) ELSE <<>>)]

\* The layers of getDefaultConfig in another key order.
ReorderedLayers ==
    <<Layer(sUi, <<sFeatures, sShared>>), Layer(sFeatures, <<sDomain, sShared>>),
      Layer(sDomain, <<>>)>>

\* Loaded configurations: each layer mapping, the boundary toggle on or off.
ProbeArchitectures ==
    {[layers |-> l,
      rules |-> [NoArchitecture.rules EXCEPT !.enforceFeatureBoundaries = on]] :
        l \in {DefaultLayers, PermissiveLayers, ReorderedLayers}, on \in BOOLEAN}

InitBoundary ==
    /\ pc = "boundary-call"
    /\ \E f \in ProbeFiles, specifiers \in ProbeImportLists, arch \in ProbeArchitectures :
          /\ fs = ProbeTree(f, specifiers)
          /\ architecture = arch
          /\ sourceFiles = findTypeScriptFiles(fs, Cwd)
          /\ importGraph = buildImportGraph(fs, sourceFiles)
          /\ context = RuleContextOf(fs, f, arch, importGraph)
    /\ configDoc = [at |-> Null, doc |-> Doc(FALSE, FALSE, <<>>, [t \in {} |-> TRUE])]
    /\ rules = <<>>
    /\ fileIdx = 0
    /\ allViolations = <<>>
    /\ result = NoResult
    /\ executed = <<>>
    /\ exitCode = 0
    /\ run = 1
    /\ prevViolations = <<>>
    /\ probe = <<>>

CallBoundaryRule ==
    /\ pc = "boundary-call"
    /\ result' = LayerImportBoundaryExecute(context)
    /\ pc' = "boundary-returned"
    /\ UNCHANGED <<fs, configDoc, architecture, rules, sourceFiles, importGraph, fileIdx,
                   allViolations, context, executed, exitCode, run, prevViolations, probe>>

NextBoundary == CallBoundaryRule

SpecBoundary == InitBoundary /\ [][NextBoundary]_vars

\* The specifier is relative: it starts with "." or "/".
RelativeSpecifier(specifier) ==
    specifier # <<>> /\ specifier[1] \in {".", "/"}

\* The layer of the importing file of the context (Null: none).
ImportingLayer(ctx) == FirstLayerOccurring(ctx.filePath, ctx.architecture.layers)

\* The layer of the path the k-th import's specifier resolves to.
ImportedPathLayer(ctx, k) ==
    FirstLayerOccurring(PathResolve(PathDirname(ctx.filePath), ctx.imports[k].from),
                        ctx.architecture.layers)

\* The layer of the file the k-th import resolves to (Null: no file, or none).
ImportedFileLayer(files, ctx, k) ==
    LET target == resolveImportPath(files, ctx.imports[k].from, ctx.filePath)
    IN IF target = Null THEN Null
       ELSE FirstLayerOccurring(target, ctx.architecture.layers)

\* allowedImports of a layer of the mapping, as a set.
AllowedOf(layers, name) ==
    UNION {Range(layers[k].allowedImports) : k \in {j \in 1..Len(layers) : layers[j].name = name}}

\* The violations of the result that name the layers from and to.
ViolationsNaming(ruleResult, from, to) ==
    {i \in 1..Len(ruleResult.violations) :
        /\ ruleResult.violations[i].rule = "layer-import-boundary"
        /\ ruleResult.violations[i].message.args[1] = from
        /\ ruleResult.violations[i].message.args[2] = to}

\* C1 as claimed: with the toggle enabled and the file in layer L, the rule emits
\* exactly one violation, naming L and M, for every relative import whose file
\* lies in a layer M other than L that L may not import, whatever the form of the
\* specifier: the violations naming L and M are at least the imports whose file
\* lies in M and at most the relative imports whose path or file lies in M.
EveryForbiddenImportReported ==
    (pc = "boundary-returned" /\ context.architecture.rules.enforceFeatureBoundaries
        /\ ImportingLayer(context) # Null) =>
        \A m \in 1..Len(context.architecture.layers) :
            LET L == ImportingLayer(context)
                M == context.architecture.layers[m].name
                named == Cardinality(ViolationsNaming(result, L, M))
                inFile == {k \in 1..Len(context.imports) :
                              /\ RelativeSpecifier(context.imports[k].from)
                              /\ ImportedFileLayer(fs, context, k) = M}
                inPath == {k \in 1..Len(context.imports) :
                              /\ RelativeSpecifier(context.imports[k].from)
                              /\ ImportedPathLayer(context, k) = M}
            IN (M # L /\ M \notin AllowedOf(context.architecture.layers, L)) =>
                   /\ Cardinality(inFile) <= named
                   /\ named <= Cardinality(inFile \cup inPath)

\* The k-th import of the context is one the rule must not report: the file has
\* no layer, the import is a package import, or its target resolves to the
\* layer of the file, to no layer, or to a layer the file's layer may import.
BenignImport(ctx, k) ==
    \/ ImportingLayer(ctx) = Null
    \/ ~RelativeSpecifier(ctx.imports[k].from)
    \/ ImportedPathLayer(ctx, k) \in {Null, ImportingLayer(ctx)}
    \/ ImportedPathLayer(ctx, k) \in AllowedOf(ctx.architecture.layers, ImportingLayer(ctx))

\* C2: layer-import-boundary emits no violation for an import of a file without
\* layer, a package import, or an import whose target resolves to the layer of
\* the file, to no layer or to an allowed layer: every violation belongs to an
\* import that is none of these, and a file with only such imports passes.
OnlyForbiddenImportsReported ==
    pc = "boundary-returned" =>
        /\ Len(result.violations)
               <= Cardinality({k \in 1..Len(context.imports) : ~BenignImport(context, k)})
        /\ \A i \in 1..Len(result.violations) :
               \E k \in 1..Len(context.imports) :
                   /\ ~BenignImport(context, k)
                   /\ result.violations[i].file = context.filePath
                   /\ result.violations[i].rule = "layer-import-boundary"
                   /\ result.violations[i].message.args[1] = ImportingLayer(context)
                   /\ result.violations[i].message.args[2] = ImportedPathLayer(context, k)
        /\ (\A k \in 1..Len(context.imports) : BenignImport(context, k)) =>
               (result.violations = <<>> /\ result.passed)

\* C2 witness: with the toggle enabled, a ui file that imports an allowed layer
\* and its own layer passes.
AllowedImportsPassWitness ==
    /\ pc = "boundary-returned"
    /\ context.architecture.rules.enforceFeatureBoundaries
    /\ context.filePath = fileA
    /\ [k \in 1..Len(context.imports) |-> context.imports[k].from] = <<specFeaturesF, specB>>
    /\ result.violations = <<>>
    /\ result.passed

-----------------------------------------------------------------------------
\* Harness of RuleEngine: rules are registered in any order, any number of
\* times, and executeRules is called on the context of a file.

\* Most rules the harness registers.
MaxRules == 4

EngineTrees ==
    {<<File(fileA, Source(<<specB, specDomainIndex, specB>>, <<>>)),
       File(fileB, Source(<<specDomainIndex, specA>>, bodyUserList)),
       File(fileIndex, <<>>)>>,
     <<File(fileA, Source(<<sReact, specDomainIndex>>, bodyUserList)),
       File(fileB, <<>>)>>}

EngineArchitectures ==
    {validateArchitectureConfig(Doc(TRUE, TRUE, RawLayers(DefaultLayers), r)).value :
        r \in {[t \in Toggles |-> TRUE], [t \in {} |-> TRUE],
               [t \in {"enforceFeatureBoundaries", "noCircularLayerDeps"} |-> TRUE]}}

InitEngine ==
    /\ pc = "engine"
    /\ \E tree \in EngineTrees, f \in {fileA, fileB}, arch \in EngineArchitectures :
          /\ fs = tree
          /\ architecture = arch
          /\ sourceFiles = findTypeScriptFiles(tree, Cwd)
          /\ importGraph = buildImportGraph(tree, sourceFiles)
          /\ context = RuleContextOf(tree, f, arch, importGraph)
    /\ configDoc = [at |-> Null, doc |-> Doc(FALSE, FALSE, <<>>, [t \in {} |-> TRUE])]
    /\ rules = <<>>
    /\ fileIdx = 0
    /\ allViolations = <<>>
    /\ result = NoResult
    /\ executed = <<>>
    /\ exitCode = 0
    /\ run = 1
    /\ prevViolations = <<>>
    /\ probe = <<>>

\* engine.registerRule(rule); probe keeps the rules in the order of the calls.
EngineRegisterRule ==
    /\ pc = "engine"
    /\ Len(probe) < MaxRules
    /\ \E k \in 1..Len(RuleNames) :
          /\ rules' = registerRule(rules, RuleNames[k])
          /\ probe' = Append(probe, RuleNames[k])
    /\ UNCHANGED <<pc, fs, configDoc, architecture, sourceFiles, importGraph, fileIdx,
                   allViolations, context, result, executed, exitCode, run,
                   prevViolations>>

\* engine.executeRules(context)
EngineExecuteRules ==
    /\ pc = "engine"
    /\ result' = executeRules(rules, context)
    /\ pc' = "engine-returned"
    /\ UNCHANGED <<fs, configDoc, architecture, rules, sourceFiles, importGraph, fileIdx,
                   allViolations, context, executed, exitCode, run, prevViolations,
                   probe>>

NextEngine ==
    \/ EngineRegisterRule
    \/ EngineExecuteRules

SpecEngine == InitEngine /\ [][NextEngine]_vars

\* C7: executeRules calls execute of every registered rule exactly once, in the
\* order of registration, rules whose toggle is off included, and returns the
\* violations of the rules concatenated in that order.
EveryRuleCalledOnceInOrder ==
    pc = "engine-returned" =>
        /\ result.calls = probe
        /\ result.violations =
               Flatten([k \in 1..Len(probe) |-> Execute(probe[k], context).violations])

\* C7 witness: a rule whose toggle is off has been called between rules that
\* report, and the violations of two rules are returned in registration order.
EngineOrderWitness ==
    /\ pc = "engine-returned"
    /\ Len(probe) >= 3
    /\ \E i, j, k \in 1..Len(probe) :
          /\ i < j /\ j < k
          /\ ~context.architecture.rules[ToggleOf(probe[j])]
          /\ Execute(probe[i], context).violations # <<>>
          /\ Execute(probe[k], context).violations # <<>>
          /\ probe[i] # probe[k]
    /\ result.calls = probe
    /\ Len(result.violations) >= 2


-----------------------------------------------------------------------------
\* Harness of no-business-logic-in-components: the functions of one file are
\* classified, then the rule is executed on the context runChecks builds for
\* the file.

\* Most statements in the body of the function the harness varies.
MaxStatements == 1

sUserList == <<"U", "s", "e", "r", "L", "i", "s", "t">>
sUseData == <<"u", "s", "e", "D", "a", "t", "a">>
sUseInner == <<"u", "s", "e", "I", "n", "n", "e", "r">>
sHelper == <<"h", "e", "l", "p", "e", "r">>
sUnderHelper == <<"_">> \o sHelper
sDollarEl == <<"$", "e", "l">>

\* for (;;) {}
stFor == <<Kw("for"), Kw("("), Kw(";"), Kw(";"), Kw(")"), Kw("{"), Kw("}"), NL>>

\* for (k in xs) {} and for (k of xs) {}
stForEach(word) ==
    <<Kw("for"), Kw("("), Id(<<"k">>), Kw(word), Id(<<"x", "s">>), Kw(")"),
      Kw("{"), Kw("}"), NL>>

\* if (test) {}
stIf(test) == <<Kw("if"), Kw("(")>> \o test \o <<Kw(")"), Kw("{"), Kw("}"), NL>>

\* The tests: a, a.b, a op b, f(), !a, (a)
ProbeTests ==
    {<<Id(<<"a">>)>>, <<Id(<<"a">>), Kw("."), Id(<<"b">>)>>,
     <<Id(<<"f">>), Kw("("), Kw(")")>>, <<Kw("!"), Id(<<"a">>)>>,
     <<Kw("("), Id(<<"a">>), Kw(")")>>}
    \cup {<<Id(<<"a">>), Kw(op), Id(<<"b">>)>> : op \in {"===", "<", "&&", "+", "="}}

\* run(function () { for (;;) {} })
stCallback ==
    <<Id(<<"r", "u", "n">>), Kw("("), Kw("function"), Kw("("), Kw(")"), Kw("{"), NL>>
    \o stFor \o <<Kw("}"), Kw(")"), NL>>

\* The three forms of a function with a name and a body:
\* function name() { body }, const v = function name() { body },
\* const name = () => { body }
FunctionForms == {"declaration", "expression", "arrow"}

FunctionForm(form, name, body) ==
    (CASE form = "declaration" -> <<Kw("function"), Id(name), Kw("("), Kw(")")>>
       [] form = "expression" ->
            <<Kw("const"), Id(<<"v">>), Kw("="), Kw("function"), Id(name), Kw("("), Kw(")")>>
       [] form = "arrow" ->
            <<Kw("const"), Id(name), Kw("="), Kw("("), Kw(")"), Kw("=>")>>)
    \o <<Kw("{"), NL>> \o body \o <<Kw("}"), NL>>

ProbeStatements ==
    {stFor, stForEach("in"), stForEach("of"), stCallback,
     FunctionForm("declaration", sUseInner, stFor),
     FunctionForm("declaration", sHelper, stFor)}
    \cup {stIf(t) : t \in ProbeTests}

ProbeBodies ==
    {Flatten(b) : b \in UNION {[1..k -> ProbeStatements] : k \in 0..MaxStatements}}

ProbeFunctionNames == {sUserList, sUseData, sHelper, sUnderHelper, sDollarEl}

\* The file the harness checks: with or without the import of react, one
\* function of one form and name around one body.
ProbeComponentSources ==
    {Source(imports, FunctionForm(form, name, body)) :
        imports \in {<<>>, <<sReact>>}, form \in FunctionForms,
        name \in ProbeFunctionNames, body \in ProbeBodies}

InitLogic ==
    /\ pc = "logic-classify"
    /\ \E source \in ProbeComponentSources, on \in BOOLEAN :
          /\ fs = <<File(fileA, source)>>
          /\ architecture = [layers |-> DefaultLayers,
                             rules |-> [NoArchitecture.rules
                                          EXCEPT !.noBusinessLogicInComponents = on]]
          /\ sourceFiles = findTypeScriptFiles(fs, Cwd)
          /\ importGraph = buildImportGraph(fs, sourceFiles)
          /\ context = RuleContextOf(fs, fileA, architecture, importGraph)
    /\ configDoc = [at |-> Null, doc |-> Doc(FALSE, FALSE, <<>>, [t \in {} |-> TRUE])]
    /\ rules = <<>>
    /\ fileIdx = 0
    /\ allViolations = <<>>
    /\ result = NoResult
    /\ executed = <<>>
    /\ exitCode = 0
    /\ run = 1
    /\ prevViolations = <<>>
    /\ probe = <<>>

\* isComponentFunction(node) for every function node of the file, in the order
\* of a visit.
ClassifyFunctions ==
    /\ pc = "logic-classify"
    /\ probe' = [k \in 1..Len(SelectSeq(Preorder(context.ast.root),
                                        LAMBDA n : n.kind \in FunctionKinds)) |->
                    [node |-> SelectSeq(Preorder(context.ast.root),
                                        LAMBDA n : n.kind \in FunctionKinds)[k],
                     component |-> isComponentFunction(
                         SelectSeq(Preorder(context.ast.root),
                                   LAMBDA n : n.kind \in FunctionKinds)[k])]]
    /\ pc' = "logic-call"
    /\ UNCHANGED <<fs, configDoc, architecture, rules, sourceFiles, importGraph, fileIdx,
                   allViolations, context, result, executed, exitCode, run,
                   prevViolations>>

CallBusinessLogicRule ==
    /\ pc = "logic-call"
    /\ result' = BusinessLogicExecute(context)
    /\ pc' = "logic-returned"
    /\ UNCHANGED <<fs, configDoc, architecture, rules, sourceFiles, importGraph, fileIdx,
                   allViolations, context, executed, exitCode, run, prevViolations, probe>>

NextLogic ==
    \/ ClassifyFunctions
    \/ CallBusinessLogicRule

SpecLogic == InitLogic /\ [][NextLogic]_vars

UpperCaseLetters ==
    {"A", "B", "C", "D", "E", "F", "G", "H", "I", "J", "K", "L", "M", "N", "O", "P",
     "Q", "R", "S", "T", "U", "V", "W", "X", "Y", "Z"}

\* The name starts with an uppercase letter or with "use".
QualifyingName(name) ==
    /\ name # Null
    /\ name # <<>>
    /\ \/ name[1] \in UpperCaseLetters
       \/ (Len(name) >= 3 /\ SubSeq(name, 1, 3) = <<"u", "s", "e">>)

\* The name of a function of the tree under root: its own name, else the name of
\* the variable it initialises (Null: none).
DeclaredName(root, fn) ==
    IF fn.kind \in {"FunctionDeclaration", "FunctionExpression"} /\ fn.text # Null
    THEN fn.text
    ELSE LET binders == {d \in Range(Preorder(root)) :
                            /\ d.kind = "VariableDeclaration"
                            /\ Len(d.children) = 2
                            /\ d.children[2] = fn}
         IN IF binders = {} THEN Null ELSE (CHOOSE d \in binders : TRUE).text

\* The file of the context imports react.
ImportsReact == \E k \in 1..Len(context.imports) : context.imports[k].from = sReact

\* The function nodes the classifier accepted.
AcceptedFunctions == {probe[k].node : k \in {j \in 1..Len(probe) : probe[j].component}}

\* The violations of the result at the location of node n.
ViolationsAt(n) ==
    {i \in 1..Len(result.violations) :
        /\ result.violations[i].line
               = getLineAndCharacterOfPosition(context.ast, n.pos).line + 1
        /\ result.violations[i].column
               = getLineAndCharacterOfPosition(context.ast, n.pos).character + 1}

\* C11 as claimed: the classifier accepts a function of any of the three forms
\* (declaration, function expression, arrow function) whenever the function has a
\* name that starts with an uppercase letter or with "use".
EveryFormWithQualifyingNameAccepted ==
    pc # "logic-classify" =>
        \A k \in 1..Len(probe) :
            QualifyingName(DeclaredName(context.ast.root, probe[k].node))
                => probe[k].component

\* C12 as claimed: a function whose name starts with neither an uppercase letter
\* nor "use" (a lowercase name, or one that starts with "_" or "$") is never
\* accepted by the classifier, and a file whose functions all have such names
\* gets no business-logic violation, also when it imports react and has loops.
OtherNamesNeverAccepted ==
    /\ pc # "logic-classify" =>
          \A k \in 1..Len(probe) :
              ~QualifyingName(DeclaredName(context.ast.root, probe[k].node))
                  => ~probe[k].component
    /\ (pc = "logic-returned"
          /\ \A k \in 1..Len(probe) :
                 ~QualifyingName(DeclaredName(context.ast.root, probe[k].node)))
          => result.violations = <<>>

\* The loop statements.
LoopKinds == {"ForStatement", "ForInStatement", "ForOfStatement"}

\* The kinds of test with which an if statement is left alone.
SimpleTestKinds == {"Identifier", "PropertyAccessExpression", "BinaryExpression"}

\* Node n is a loop, or an if statement whose test is not of a simple kind.
FlaggedNode(n) ==
    \/ n.kind \in LoopKinds
    \/ (n.kind = "IfStatement" /\ n.children[1].kind \notin SimpleTestKinds)

\* C13 as claimed: with the toggle on, in a file that imports react, every loop
\* and every if statement with a non-simple test in the subtree of a function the
\* classifier accepts gets exactly one violation at its location; no node is
\* reported twice, also when an accepted function is declared inside another.
\* Stated for the files whose accepted functions all have a name that starts
\* with an uppercase letter or with "use".
EachFlaggedNodeReportedOnce ==
    (pc = "logic-returned" /\ context.architecture.rules.noBusinessLogicInComponents
        /\ ImportsReact
        /\ \A fn \in AcceptedFunctions : QualifyingName(fn.text)) =>
        \A fn \in AcceptedFunctions :
            \A n \in Range(Preorder(fn)) :
                FlaggedNode(n) => Cardinality(ViolationsAt(n)) = 1

\* The if statements in the subtrees of the functions the classifier accepted.
IfStatementsInAccepted ==
    UNION {{n \in Range(Preorder(fn)) : n.kind = "IfStatement"} : fn \in AcceptedFunctions}

\* The operators of a comparison or of a logical expression.
ComparisonOrLogicalOperators ==
    {<<"===">>, <<"!==">>, <<"==">>, <<"!=">>, <<"<">>, <<">">>, <<"<=">>, <<">=">>,
     <<"&&">>, <<"||">>}

\* C20 as claimed: inside an accepted function of a component file, an if
\* statement is left unflagged exactly when its test is, at top level, an
\* identifier, a property access, or a binary comparison or logical expression;
\* a test that is a call, a negation, a parenthesized expression, an assignment
\* or an arithmetic expression is flagged.
IfUnflaggedExactlyWhenComparisonOrLogical ==
    (pc = "logic-returned" /\ context.architecture.rules.noBusinessLogicInComponents
        /\ ImportsReact) =>
        \A n \in IfStatementsInAccepted :
            ViolationsAt(n) = {}
                <=> \/ n.children[1].kind \in {"Identifier", "PropertyAccessExpression"}
                    \/ /\ n.children[1].kind = "BinaryExpression"
                       /\ n.children[1].text \in ComparisonOrLogicalOperators

\* C20, amended: inside an accepted function of a component file, an if
\* statement is left unflagged exactly when its test is, at top level, an
\* identifier, a property access, or a binary expression of any operator
\* (comparison, logical, arithmetic, assignment); a test that is a call, a
\* negation or a parenthesized expression is flagged as a complex conditional.
IfUnflaggedExactlyWhenIdentifierAccessOrBinary ==
    (pc = "logic-returned" /\ context.architecture.rules.noBusinessLogicInComponents
        /\ ImportsReact) =>
        \A n \in IfStatementsInAccepted :
            /\ ViolationsAt(n) = {} <=> n.children[1].kind \in SimpleTestKinds
            /\ \A i \in ViolationsAt(n) :
                   /\ result.violations[i].message.text
                          = "Complex conditional in UI component"
                   /\ result.violations[i].rule = "no-business-logic-in-components"
                   /\ result.violations[i].file = context.filePath

\* C20 witness: the rule has run on a component file whose accepted function
\* holds an if statement with an assignment as test, and has reported nothing.
AssignmentTestUnflaggedWitness ==
    /\ pc = "logic-returned"
    /\ context.architecture.rules.noBusinessLogicInComponents
    /\ ImportsReact
    /\ \E n \in IfStatementsInAccepted :
          /\ n.children[1].kind = "BinaryExpression"
          /\ n.children[1].text = <<"=">>
    /\ result.violations = <<>>
    /\ result.passed

-----------------------------------------------------------------------------
\* Further properties of the check command (Spec).

\* The configuration is in error: no architecture.yaml is found from the working
\* directory, or the document is not an object, or its layers are not an object,
\* or a layer is not an object, or a layer's allowedImports is not a list.
ConfigInError ==
    \/ findArchitectureConfig(configDoc, Cwd) = Null
    \/ ~configDoc.doc.isObject
    \/ ~configDoc.doc.layersIsObject
    \/ \E k \in 1..Len(configDoc.doc.layers) :
          ~configDoc.doc.layers[k].isObject \/ ~configDoc.doc.layers[k].allowedIsArray

\* C14: a configuration error is fatal and happens before any analysis: the run
\* goes from its start to the error exit only, with an error message and exit
\* status 1, and no file has been walked, parsed or passed to a rule, no graph
\* built and no violation reported.
ConfigErrorAbortsBeforeAnalysis ==
    ConfigInError =>
        /\ pc \in {"start", "error"}
        /\ pc = "error" =>
              (exitCode = 1 /\ Len(probe) = 1 /\ probe[1] # "")
        /\ rules = <<>>
        /\ sourceFiles = <<>>
        /\ importGraph = <<>>
        /\ fileIdx = 0
        /\ executed = <<>>
        /\ context = NoContext
        /\ result = NoResult
        /\ allViolations = <<>>

\* C14 witness: a project whose files break the rules, with a layer whose
\* allowedImports is not a list, has ended in the error exit.
ConfigErrorWitness ==
    /\ pc = "error"
    /\ exitCode = 1
    /\ findArchitectureConfig(configDoc, Cwd) # Null
    /\ configDoc.doc.isObject /\ configDoc.doc.layersIsObject
    /\ \A k \in 1..Len(configDoc.doc.layers) : configDoc.doc.layers[k].isObject
    /\ \E k \in 1..Len(configDoc.doc.layers) : ~configDoc.doc.layers[k].allowedIsArray
    /\ \E k \in 1..Len(fs) :
          fs[k].path = fileA /\ fs[k].content = Source(<<sReact, specDomainIndex>>, bodyUserList)
    /\ allViolations = <<>>

\* The calls of the trace that scanned the import graph with detectCycles.
CycleScans == {k \in 1..Len(executed) : executed[k][3] > 0}

\* C15 as claimed: in one check run detectCycles is executed exactly once, not
\* once per file, however many files are walked: a finished run with the cycle
\* toggle on has made one scan.
DetectCyclesRunsOncePerRun ==
    (pc = "done" /\ architecture.rules.noCircularLayerDeps /\ Len(sourceFiles) > 0) =>
        Cardinality(CycleScans) = 1

\* The files of the cycles detectCycles returns on the import graph.
FilesOnCycles == UNION {Range(c) : c \in Range(detectCycles(importGraph))}

\* C16: the import graph is closed over the walked set: its keys are the walked
\* files, those with an empty list included; every adjacency entry is a key; and
\* every file of a detected cycle and of a cycle violation is a key.
ImportGraphClosedOverWalkedFiles ==
    pc \in {"check", "done"} =>
        /\ [k \in 1..Len(importGraph) |-> importGraph[k].key] = sourceFiles
        /\ \A k \in 1..Len(importGraph) :
               Range(importGraph[k].value) \subseteq Range(sourceFiles)
        /\ FilesOnCycles \subseteq Range(sourceFiles)
        /\ \A i \in 1..Len(CycleViolations) :
               CycleViolations[i].file \in Range(sourceFiles)

\* C16 witness: a finished run on a project where ui/a.ts imports dist/c.ts, which
\* is not walked, and ui/b.ts: the graph has the walked files as keys, no edge to
\* dist/c.ts, and the cycle between ui/a.ts and ui/b.ts has been reported.
UnwalkedTargetDroppedWitness ==
    /\ pc = "done"
    /\ IsFile(fs, fileDistC)
    /\ sourceFiles = <<fileA, fileB>>
    /\ importGraph = <<[key |-> fileA, value |-> <<fileB>>], [key |-> fileB, value |-> <<fileA>>]>>
    /\ CycleViolations # <<>>

\* A returned cycle without its closing file, turned so that its smallest file
\* comes first: equal for cycles with the same files in the same cyclic order.
CanonicalCycle(cycle) ==
    LET files == SubSeq(cycle, 1, Len(cycle) - 1)
        k == CHOOSE i \in 1..Len(files) : files[i] = LexSmallest(files)
    IN SubSeq(files, k, Len(files)) \o SubSeq(files, 1, k - 1)

\* The distinct structural cycles among the cycles detected on the import graph.
StructuralCycles == {CanonicalCycle(c) : c \in Range(detectCycles(importGraph))}

\* C19 as claimed: a check run reports at most one no-circular-layer-deps
\* violation per distinct structural cycle, for every import graph, adjacency
\* lists that hold a target more than once included.
OneViolationPerStructuralCycle ==
    pc = "done" => Len(CycleViolations) <= Cardinality(StructuralCycles)

-----------------------------------------------------------------------------
\* Further properties of layer-import-boundary (SpecBoundary).

\* The imports of the context the rule must report, by their index, in order.
ReportedImports ==
    SelectSeq([k \in 1..Len(context.imports) |-> k],
              LAMBDA k : ~BenignImport(context, k))

\* The 1-based line and column of the first token of the k-th import statement
\* of the context's file.
ImportStatementLocation(k) ==
    LET decl == SelectSeq(Preorder(context.ast.root),
                          LAMBDA n : n.kind = "ImportDeclaration")[k]
        lc == getLineAndCharacterOfPosition(context.ast, decl.pos)
    IN <<lc.line + 1, lc.character + 1>>

\* C18 as claimed: every layer-import-boundary violation is pinned to the import
\* statement that caused it, at the line and column of its first token, so the
\* violations of two different import statements, also of two with the same
\* specifier, are at two different locations.
ViolationsPinnedToTheirImports ==
    (pc = "boundary-returned" /\ Len(result.violations) = Len(ReportedImports)) =>
        /\ \A i \in 1..Len(result.violations) :
               <<result.violations[i].line, result.violations[i].column>>
                   = ImportStatementLocation(ReportedImports[i])
        /\ \A i, j \in 1..Len(result.violations) :
               i # j => <<result.violations[i].line, result.violations[i].column>>
                            # <<result.violations[j].line, result.violations[j].column>>

-----------------------------------------------------------------------------
\* Harness of the import graph builder: ui/a.ts imports ui/b in several
\* spellings, in projects that hold any of the files the resolution tries.

\* /p/ui/b, the path the relative specifiers of the harness resolve to
pathB == Cwd \o <<"/">> \o sUi \o <<"/", "b">>

\* The suffixes resolveImportPath tries, in its order, after the literal path.
CandidateSuffixes ==
    <<extTs, extTsx, extJs, extJsx,
      sIndex \o extTs, sIndex \o extTsx, sIndex \o extJs, sIndex \o extJsx>>

\* The files a project of the harness may hold beside ui/a.ts, in directory
\* order: the literal path, then the paths with the suffixes.
CandidateFiles ==
    <<pathB>> \o [k \in 1..Len(CandidateSuffixes) |-> pathB \o CandidateSuffixes[k]]

\* The sets of candidate files a file system can hold: ui/b is a file or a
\* directory, not both.
CandidateSets ==
    {c \in SUBSET (1..Len(CandidateFiles)) : 1 \in c => c \cap (6..9) = {}}

\* The specifiers of ui/a.ts: './b', '/p/ui/b', 'b' and 'react'.
GraphSpecifiers == {specB, pathB, <<"b">>, sReact}

GraphImportLists == UNION {[1..k -> GraphSpecifiers] : k \in 0..MaxImports}

InitGraph ==
    /\ pc = "graph-walk"
    /\ \E specifiers \in GraphImportLists, present \in CandidateSets :
          fs = <<File(fileA, Source(specifiers, <<>>))>>
               \o [k \in 1..Cardinality(present) |->
                      File(SelectSeq(CandidateFiles,
                                     LAMBDA c : \E i \in present : CandidateFiles[i] = c)[k],
                           <<>>)]
    /\ configDoc = [at |-> Null, doc |-> Doc(FALSE, FALSE, <<>>, [t \in {} |-> TRUE])]
    /\ ProcessStart
    /\ run = 1
    /\ prevViolations = <<>>
    /\ probe = <<>>

\* findTypeScriptFiles(cwd)
WalkFiles ==
    /\ pc = "graph-walk"
    /\ sourceFiles' = findTypeScriptFiles(fs, Cwd)
    /\ pc' = "graph-build"
    /\ UNCHANGED <<fs, configDoc, architecture, rules, importGraph, fileIdx,
                   allViolations, context, result, executed, exitCode, run,
                   prevViolations, probe>>

\* buildImportGraph(sourceFiles, cwd)
CallBuildImportGraph ==
    /\ pc = "graph-build"
    /\ importGraph' = buildImportGraph(fs, sourceFiles)
    /\ pc' = "graph-built"
    /\ UNCHANGED <<fs, configDoc, architecture, rules, sourceFiles, fileIdx,
                   allViolations, context, result, executed, exitCode, run,
                   prevViolations, probe>>

NextGraph ==
    \/ WalkFiles
    \/ CallBuildImportGraph

SpecGraph == InitGraph /\ [][NextGraph]_vars

\* The specifiers of the import statements of ui/a.ts, in order.
SpecifiersOfA ==
    LET content == fs[1].content
    IN [k \in 1..(Len(content) \div 3) |-> content[3 * k - 1].v]

\* The file system holds a regular file at path p.
FilePresent(p) == \E i \in 1..Len(fs) : fs[i].path = p

\* The first candidate that exists for a specifier that resolves to ui/b, in the
\* order literal path, extensions, index files (Null: none exists).
WinningCandidate ==
    IF \E k \in 1..Len(CandidateFiles) : FilePresent(CandidateFiles[k])
    THEN CandidateFiles[CHOOSE k \in 1..Len(CandidateFiles) :
                            /\ FilePresent(CandidateFiles[k])
                            /\ \A j \in 1..(k - 1) : ~FilePresent(CandidateFiles[j])]
    ELSE Null

\* The adjacency list of ui/a.ts in the import graph.
EdgesOfA == importGraph[CHOOSE k \in 1..Len(importGraph) : importGraph[k].key = fileA].value

\* C17 as claimed: a specifier that does not start with "." or "/" never becomes
\* an edge; for a relative specifier the first existing candidate, in the order
\* literal path, extensions, index files, becomes the edge target, and the import
\* is dropped only if no candidate exists.
FirstExistingCandidateIsTheEdge ==
    pc = "graph-built" =>
        EdgesOfA = Flatten([k \in 1..Len(SpecifiersOfA) |->
                       IF RelativeSpecifier(SpecifiersOfA[k]) /\ WinningCandidate # Null
                       THEN <<WinningCandidate>> ELSE <<>>])

\* The walk collects the file: its name ends with .ts or .tsx.
WalkedFile(p) ==
    \/ SubSeq(p, Len(p) - 2, Len(p)) = <<".", "t", "s">>
    \/ SubSeq(p, Len(p) - 3, Len(p)) = <<".", "t", "s", "x">>

\* C17, amended: a specifier that does not start with "." or "/" never becomes
\* an edge; for a relative specifier the first existing candidate, in the order
\* literal path, extensions, index files, wins; it becomes the edge target when
\* it is one of the walked files, and the import is dropped when no candidate
\* exists or the winning candidate is not a walked file.
FirstExistingCandidateIsTheEdgeIfWalked ==
    pc = "graph-built" =>
        EdgesOfA = Flatten([k \in 1..Len(SpecifiersOfA) |->
                       IF /\ RelativeSpecifier(SpecifiersOfA[k])
                          /\ WinningCandidate # Null
                          /\ WalkedFile(WinningCandidate)
                       THEN <<WinningCandidate>> ELSE <<>>])

\* C17 witness: ui/a.ts imports './b' where ui/b.js and ui/b/index.ts exist: the
\* import is dropped, ui/b.js being the first existing candidate and not walked.
WinnerNotWalkedWitness ==
    /\ pc = "graph-built"
    /\ SpecifiersOfA = <<specB>>
    /\ WinningCandidate = pathB \o extJs
    /\ FilePresent(pathB \o sIndex \o extTs)
    /\ pathB \o sIndex \o extTs \in Range(sourceFiles)
    /\ EdgesOfA = <<>>

-----------------------------------------------------------------------------
\* Frame of the rule executions in the check command (Spec).

\* C21: the import graph is completely built before the first rule is executed
\* on a file and is read-only from then on: once a rule has been executed, and
\* after every later rule execution and detectCycles call of the run, the graph
\* is the graph of the whole project, key by key and list by list, the
\* configuration is the loaded one, and the context of the last call holds that
\* graph, that configuration and the fields it was constructed with.
GraphBuiltBeforeRulesAndReadOnly ==
    executed # <<>> =>
        /\ [k \in 1..Len(importGraph) |-> importGraph[k].key] = sourceFiles
        /\ \A k \in 1..Len(importGraph) :
               importGraph[k].value = RelativeImports(fs, sourceFiles, sourceFiles[k])
        /\ architecture
               = validateArchitectureConfig(configDoc.doc).value
        /\ context.importGraph = <<importGraph>>
        /\ context.architecture = architecture
        /\ context.filePath = sourceFiles[fileIdx]
        /\ context.sourceCode = ReadFileSync(fs, context.filePath)
        /\ context.ast = parseTypeScript(context.sourceCode, context.filePath)
        /\ context.imports = extractImports(context.ast)

\* C21 witness: the rules have run on the first file of a project with an import
\* cycle, detectCycles included, another file is still to be checked, and the
\* graph holds the edges of the files not yet checked.
GraphCompleteAtFirstFileWitness ==
    /\ pc = "check"
    /\ fileIdx = 1
    /\ Len(sourceFiles) >= 2
    /\ CycleScans # {}
    /\ \A k \in 1..Len(importGraph) : importGraph[k].value # <<>>
    /\ allViolations # <<>>

-----------------------------------------------------------------------------
\* Further properties of detectCycles (SpecCycles).

\* No adjacency list of the graph holds the same target twice.
NoDuplicateEdges(graph) ==
    \A k \in 1..Len(graph) :
        \A i, j \in 1..Len(graph[k].value) :
            i # j => graph[k].value[i] # graph[k].value[j]

\* The returned cycles r and s have the same files in the same cyclic order:
\* without their closing file, one is a rotation of the other.
SameStructuralCycle(r, s) ==
    /\ Len(r) = Len(s)
    /\ \E shift \in 0..(Len(r) - 2) :
           \A i \in 1..(Len(r) - 1) :
               s[i] = r[((i - 1 + shift) % (Len(r) - 1)) + 1]

\* C22: if no adjacency list holds the same target twice, detectCycles never
\* returns the same structural cycle twice, whatever the key order of the graph
\* and the node from which the traversal reaches the cycle.
NoStructuralCycleReturnedTwice ==
    (pc = "cycles-returned" /\ NoDuplicateEdges(probe.graph)) =>
        \A i, j \in 1..Len(result.cycles) :
            i # j => ~SameStructuralCycle(result.cycles[i], result.cycles[j])

\* C22 witness: a graph without duplicate edges whose last key lies on two
\* cycles, which the traversal reaches from another key and returns both, each
\* once.
TwoCyclesThroughOneFileWitness ==
    /\ pc = "cycles-returned"
    /\ NoDuplicateEdges(probe.graph)
    /\ Len(result.cycles) = 2
    /\ Len(result.cycles[1]) = 3
    /\ Len(result.cycles[2]) = 3
    /\ probe.graph[Len(probe.graph)].key \in Range(result.cycles[1]) \cap Range(result.cycles[2])
    /\ ~SameStructuralCycle(result.cycles[1], result.cycles[2])

\* The files of the graph: its keys and the targets of its adjacency lists.
FilesOfGraph(graph) ==
    Range(GraphKeys(graph)) \cup UNION {Range(graph[k].value) : k \in 1..Len(graph)}

\* The closure state st of a detectCycles call on graph: dfs was entered at most
\* once per file, on files of the graph only, and the recursion stack and the
\* current path are empty.
CleanClosure(graph, st) ==
    /\ \A i, j \in 1..Len(st.calls) : i # j => st.calls[i] # st.calls[j]
    /\ Range(st.calls) \subseteq FilesOfGraph(graph)
    /\ st.recStack = {}
    /\ st.path = <<>>

\* C23: detectCycles terminates on every finite import graph, graphs with cycles,
\* self-loops and duplicate edges included: on every graph it is about to be
\* called on, the call has a result, and in that result, as in every result it
\* has returned, dfs was entered at most once per file and the recursion stack
\* and the current path are empty.
DetectCyclesTerminatesCleanly ==
    /\ pc = "cycles-call" => CleanClosure(probe.graph, DetectCyclesState(probe.graph))
    /\ pc = "cycles-returned" => CleanClosure(probe.graph, result)

\* C23 witness: detectCycles has returned on a graph with a self-loop, a cycle
\* through two files and a duplicate edge, having entered dfs on every file.
TerminatedOnCyclicGraphWitness ==
    /\ pc = "cycles-returned"
    /\ CleanClosure(probe.graph, result)
    /\ \E k \in 1..Len(probe.graph) : probe.graph[k].key \in Range(probe.graph[k].value)
    /\ ~NoDuplicateEdges(probe.graph)
    /\ \E k \in 1..Len(result.cycles) : Len(result.cycles[k]) = 3
    /\ Len(result.calls) = Len(probe.graph)

=============================================================================
